---- MODULE Spec2Model ----
(***************************************************************************)
(* Model of the beam analysis engine, src/solver.ts (analyzeBeam).         *)
(*                                                                         *)
(* Numbers.  Positions, the beam length and the mesh nodes are exact       *)
(* rationals <<n, d>> (d > 0, lowest terms), so that set membership and    *)
(* equality of positions are what === is on the source's numbers.          *)
(* Values that come out of the floating-point elimination (displacements,  *)
(* end forces, reactions) are kept as terms that name the expression of    *)
(* the source that produces them: [kind, ix, rhs].                         *)
(* Indices (node, element, DOF) are 0-based as in the source; a sequence   *)
(* s is read at source index i as s[i + 1].                                *)
(***************************************************************************)
EXTENDS Integers, Sequences, FiniteSets, TLC

VARIABLES
    config, supports, loads, probeX,   \* the caller's arguments
    pc,                                \* position inside analyzeBeam
    outcome,                           \* "none" | "threw" | "returned"
    finalNodes, hingeNodes, K, solver, F_main, U,
    shear, moment, deflection,
    reactions, ildReactions, ildShearAtProbe, ildMomentAtProbe,
    reactionCount, hingesCount, isStable,
    result,                            \* <<>> or <<AnalysisResults>>
    memo,                              \* <<>> or <<first completed call>>
    log,                               \* factorizations and solves of the call, in order
    elem,                              \* one element under applyMomentRelease
    stiff,                             \* the assembly of K, entry by entry
    lusolver,                          \* one LUSolver object and its caller
    app                                \* the App component

args == <<config, supports, loads, probeX>>
locals == <<finalNodes, hingeNodes, K, solver, F_main, U, shear, moment,
            deflection, reactions, ildReactions, ildShearAtProbe,
            ildMomentAtProbe, reactionCount, hingesCount, isStable>>
aux == <<elem, stiff, lusolver, app>>
vars == <<args, pc, outcome, locals, result, memo, log, aux>>

----------------------------------------------------------------------------
(* Exact rational arithmetic.                                              *)

Abs(x) == IF x < 0 THEN -x ELSE x

Max(a, b) == IF a > b THEN a ELSE b

Min(a, b) == IF a < b THEN a ELSE b

RECURSIVE GCD(_, _)
GCD(a, b) == IF b = 0 THEN a ELSE GCD(b, a % b)

Rat(n, d) ==
    LET s == IF d < 0 THEN -1 ELSE 1
        g == GCD(Abs(n), Abs(d))
    IN  <<(s * n) \div g, (s * d) \div g>>

Zero == <<0, 1>>
RAdd(a, b) == Rat(a[1] * b[2] + b[1] * a[2], a[2] * b[2])
RSub(a, b) == Rat(a[1] * b[2] - b[1] * a[2], a[2] * b[2])
RMul(a, b) == Rat(a[1] * b[1], a[2] * b[2])
RDiv(a, b) == Rat(a[1] * b[2], a[2] * b[1])
RLt(a, b) == a[1] * b[2] < b[1] * a[2]
RLe(a, b) == a[1] * b[2] <= b[1] * a[2]
RAbs(a) == <<Abs(a[1]), a[2]>>
RMax(a, b) == IF RLt(a, b) THEN b ELSE a
RCeil(a) == -((-a[1]) \div a[2])
RFloor(a) == a[1] \div a[2]

----------------------------------------------------------------------------
(* Inputs.                                                                 *)

MaxSupports == 2
MaxLoads == 1

Undefined == <<0, 0>>

ConfigPool ==
    { [length |-> <<1, 5>>,   elasticModulus |-> 1,  momentOfInertia |-> 1],
      [length |-> <<3, 10>>,  elasticModulus |-> -1, momentOfInertia |-> -1],
      [length |-> <<0, 1>>,   elasticModulus |-> 1,  momentOfInertia |-> 1],
      [length |-> <<-1, 10>>, elasticModulus |-> 1,  momentOfInertia |-> 1],
      [length |-> <<1, 5>>,   elasticModulus |-> 0,  momentOfInertia |-> 1],
      [length |-> <<1, 5>>,   elasticModulus |-> -1, momentOfInertia |-> 1] }

SupportPool ==
    { [id |-> "s1", type |-> "PINNED", position |-> <<0, 1>>],
      [id |-> "s2", type |-> "ROLLER", position |-> <<3, 10>>],
      [id |-> "s3", type |-> "FIXED",  position |-> <<0, 1>>],
      [id |-> "s4", type |-> "HINGE",  position |-> <<3, 20>>],
      [id |-> "s1", type |-> "HINGE",  position |-> <<1, 10>>] }

LoadPool ==
    { [id |-> "l1", type |-> "POINT", magnitude |-> 10, endMagnitude |-> Undefined,
       position |-> <<3, 20>>, endPosition |-> <<1, 8>>],
      [id |-> "l3", type |-> "UVL", magnitude |-> 10, endMagnitude |-> <<5, 1>>,
       position |-> <<1, 10>>, endPosition |-> <<3, 10>>] }

ProbePool == { <<0, 1>>, <<1, 10>>, <<1, 4>> }

SeqsUpTo(S, n) == UNION { [1..k -> S] : k \in 0..n }

----------------------------------------------------------------------------
(* Mesh generation.                                                        *)

\* Concatenation of ss[lo], ..., ss[hi], in order.
RECURSIVE Flatten(_, _, _)
Flatten(ss, lo, hi) ==
    IF lo > hi THEN <<>>
    ELSE IF lo = hi THEN ss[lo]
    ELSE LET mid == (lo + hi) \div 2
         IN  Flatten(ss, lo, mid) \o Flatten(ss, mid + 1, hi)

SeqRange(s) == { s[i] : i \in 1..Len(s) }

IsDistributed(l) == l.type = "UDL" \/ l.type = "UVL"

CriticalX(L, sup, lds, probe) ==
    {Zero, L, probe}
        \cup { sup[i].position : i \in 1..Len(sup) }
        \cup { lds[i].position : i \in 1..Len(lds) }
        \cup { lds[i].endPosition :
                 i \in { k \in 1..Len(lds) :
                           IsDistributed(lds[k]) /\ lds[k].endPosition # Undefined } }

RECURSIVE SortedX(_)
SortedX(S) ==
    IF S = {} THEN <<>>
    ELSE LET m == CHOOSE x \in S : \A y \in S : RLe(x, y)
         IN  <<m>> \o SortedX(S \ {m})

MinInterval(L) == RMax(<<1, 10>>, RDiv(L, <<100, 1>>))

NumSubFloor(start, end, minInterval) ==
    Max(1, RFloor(RDiv(RSub(end, start), minInterval)))

NumSub(start, end, minInterval) ==
    Max(1, RCeil(RDiv(RSub(end, start), minInterval)))

SubdivideThroughEnd(start, end, numSub) ==
    <<start>> \o
    [j \in 1..numSub |->
        RAdd(start, RDiv(RMul(<<j, 1>>, RSub(end, start)), <<numSub, 1>>))]

Subdivide(start, end, numSub) ==
    <<start>> \o
    [j \in 1..(numSub - 1) |->
        RAdd(start, RDiv(RMul(<<j, 1>>, RSub(end, start)), <<numSub, 1>>))]

PushIntervals(sortedX, minInterval) ==
    Flatten([i \in 1..(Len(sortedX) - 1) |->
                Subdivide(sortedX[i], sortedX[i + 1],
                          NumSub(sortedX[i], sortedX[i + 1], minInterval))],
            1, Len(sortedX) - 1)

GenerateNodes(L, sup, lds, probe) ==
    Append(PushIntervals(SortedX(CriticalX(L, sup, lds, probe)), MinInterval(L)), L)

Distance(a, x) == RAbs(RSub(a, x))

\* The scan of lines 83-86 keeps the first index whose distance is strictly
\* below all earlier ones; the same index is found here by halving the range
\* (the left half wins ties), which keeps the evaluation depth logarithmic.
RECURSIVE ClosestIn(_, _, _, _)
ClosestIn(nodes, x, lo, hi) ==
    IF lo = hi THEN lo
    ELSE LET mid == (lo + hi) \div 2
             a == ClosestIn(nodes, x, lo, mid)
             b == ClosestIn(nodes, x, mid + 1, hi)
         IN  IF RLt(Distance(nodes[b + 1], x), Distance(nodes[a + 1], x)) THEN b ELSE a

findClosestNodeIndex(nodes, x) ==
    IF Len(nodes) = 0 THEN 0 ELSE ClosestIn(nodes, x, 0, Len(nodes) - 1)

----------------------------------------------------------------------------
(* Terms for floating-point values: the expression that produces them.     *)

Term(kind, ix, rhs) == [kind |-> kind, ix |-> ix, rhs |-> rhs]

ZeroVal == Term("0", 0, 0)

MainRhs == -1

----------------------------------------------------------------------------
(* analyzeBeam, step by step.                                              *)

\* I = config.momentOfInertia * 1e-12 in double arithmetic: a product below the
\* smallest positive double (about 4.9e-324) is 0.  A config whose inertia is
\* that small carries it as momentOfInertia * 10^inertiaScale, with
\* momentOfInertia in 1..9.
InertiaUnderflows(cfg) ==
    /\ "inertiaScale" \in DOMAIN cfg
    /\ cfg.momentOfInertia \in 1..9
    /\ cfg.inertiaScale - 12 < -324

EIof(cfg) ==
    IF InertiaUnderflows(cfg) THEN Zero
    ELSE Rat(cfg.elasticModulus * cfg.momentOfInertia, 1000000)

GuardRejectsNegativeOnly(cfg) == RLt(cfg.length, Zero) \/ RLt(EIof(cfg), Zero)

GuardRejects(cfg) == RLe(cfg.length, Zero) \/ RLe(EIof(cfg), Zero)

HingeNodesOf(sup, nodes) ==
    { findClosestNodeIndex(nodes, sup[i].position) :
        i \in { k \in 1..Len(sup) : sup[k].type = "HINGE" } }

ElementLength(nodes, i) == RSub(nodes[i + 2], nodes[i + 1])

ElementsOf(nodes, hinges) ==
    LET is == SelectSeq([k \in 1..(Len(nodes) - 1) |-> k - 1],
                        LAMBDA i : ~RLe(ElementLength(nodes, i), Zero))
    IN  [j \in 1..Len(is) |->
            [elem |-> is[j],
             releaseStart |-> is[j] \in hinges,
             releaseEnd |-> (is[j] + 1) \in hinges]]

PenaltyDofs(sup, nodes) ==
    Flatten([k \in 1..Len(sup) |->
                LET idx == findClosestNodeIndex(nodes, sup[k].position)
                IN  IF sup[k].type = "FIXED" THEN <<idx * 2, idx * 2 + 1>>
                    ELSE IF sup[k].type \in {"PINNED", "ROLLER"} THEN <<idx * 2>>
                    ELSE <<>>],
            1, Len(sup))

NoMatrix == [dim |-> 0, elems |-> <<>>, penalties |-> <<>>]

AssembleK(nodes, hinges, sup) ==
    [dim |-> Len(nodes) * 2,
     elems |-> ElementsOf(nodes, hinges),
     penalties |-> PenaltyDofs(sup, nodes)]

NoSolver == [n |-> 0]

LUSolver(matrix) == [n |-> matrix.dim]

\* xA <= xB instead of xA < xB - 1e-9
OverlapsTouching(x1, x2, load) ==
    /\ load.endPosition # Undefined
    /\ LET xA == RMax(x1, load.position)
           xB == IF RLt(load.endPosition, x2) THEN load.endPosition ELSE x2
       IN  RLe(xA, xB)

Overlaps(x1, x2, load) ==
    /\ load.endPosition # Undefined
    /\ LET xA == RMax(x1, load.position)
           xB == IF RLt(load.endPosition, x2) THEN load.endPosition ELSE x2
           d == RSub(xB, xA)
       IN  d[1] >= 3 \/ (d[1] >= 1 /\ d[1] * 1000000000 > d[2])

ElemTermsAt(nodes, hinges, currentLoads, i) ==
    LET ks == SelectSeq([k \in 1..Len(currentLoads) |-> k],
                        LAMBDA k : /\ IsDistributed(currentLoads[k])
                                   /\ Overlaps(nodes[i + 1], nodes[i + 2], currentLoads[k]))
    IN  [j \in 1..Len(ks) |->
            [elem |-> i, load |-> ks[j] - 1,
             releaseStart |-> i \in hinges, releaseEnd |-> (i + 1) \in hinges]]

ElemTerms(nodes, hinges, currentLoads) ==
    Flatten([k \in 1..(Len(nodes) - 1) |->
                IF RLe(ElementLength(nodes, k - 1), Zero) THEN <<>>
                ELSE ElemTermsAt(nodes, hinges, currentLoads, k - 1)],
            1, Len(nodes) - 1)

NodalTerms(nodes, currentLoads) ==
    LET ks == SelectSeq([k \in 1..Len(currentLoads) |-> k],
                        LAMBDA k : currentLoads[k].type \in {"POINT", "MOMENT"})
    IN  [j \in 1..Len(ks) |->
            LET load == currentLoads[ks[j]]
                idx == findClosestNodeIndex(nodes, load.position)
            IN  [dof |-> IF load.type = "POINT" THEN idx * 2 ELSE idx * 2 + 1,
                 load |-> ks[j] - 1]]

NoVector == [rhs |-> MainRhs, n |-> 0, elemTerms |-> <<>>, nodal |-> <<>>]

buildLoadVector(nodes, hinges, currentLoads, rhs) ==
    LET hasDistributed == \E k \in 1..Len(currentLoads) : IsDistributed(currentLoads[k])
    IN  [rhs |-> rhs,
         n |-> Len(nodes) * 2,
         elemTerms |-> IF hasDistributed
                       THEN ElemTerms(nodes, hinges, currentLoads)
                       ELSE <<>>,
         nodal |-> NodalTerms(nodes, currentLoads)]

Solve(lu, b) == [i \in 1..lu.n |-> Term("U", i - 1, b.rhs)]

getInternalAt(nodes, dispVector, xTarget, side) ==
    LET numNodes == Len(nodes)
        nodeIdx == findClosestNodeIndex(nodes, xTarget)
        e0 == IF side = "left" THEN nodeIdx - 1 ELSE nodeIdx
        e1 == IF e0 < 0 THEN 0 ELSE e0
        elemIdx == IF e1 >= numNodes - 1 THEN numNodes - 2 ELSE e1
        rhs == dispVector[elemIdx * 2 + 1].rhs
    IN  IF RLe(ElementLength(nodes, elemIdx), Zero)
        THEN [shear |-> ZeroVal, moment |-> ZeroVal]
        ELSE IF nodeIdx = elemIdx
        THEN [shear |-> Term("f0/1000", elemIdx, rhs),
              moment |-> Term("-f1/1000", elemIdx, rhs)]
        ELSE [shear |-> Term("-f2/1000", elemIdx, rhs),
              moment |-> Term("f3/1000", elemIdx, rhs)]

ClipMoment(v) ==
    IF v = ZeroVal THEN ZeroVal ELSE Term("clip", v.ix, v.rhs)

----------------------------------------------------------------------------
(* Per-node results, reactions and classification.                         *)

InternalAtNodes(nodes, u) ==
    [i \in 1..Len(nodes) |->
        LET int == getInternalAt(nodes, u, nodes[i], "left")
        IN  [shear |-> int.shear, moment |-> ClipMoment(int.moment)]]

DeflectionOfRotations(u) ==
    LET evens == SelectSeq([i \in 1..Len(u) |-> i - 1], LAMBDA i : i % 2 = 1)
    IN  [k \in 1..Len(evens) |-> Term("U*1000", u[evens[k] + 1].ix, u[evens[k] + 1].rhs)]

DeflectionOf(u) ==
    LET evens == SelectSeq([i \in 1..Len(u) |-> i - 1], LAMBDA i : i % 2 = 0)
    IN  [k \in 1..Len(evens) |-> Term("U*1000", u[evens[k] + 1].ix, u[evens[k] + 1].rhs)]

NonHinge(sup) == SelectSeq(sup, LAMBDA s : s.type # "HINGE")

ReactionsLabelledBySupportIndex(sup, nodes, u) ==
    LET ks == SelectSeq([k \in 1..Len(sup) |-> k], LAMBDA k : sup[k].type # "HINGE")
    IN  [j \in 1..Len(ks) |->
            LET s == sup[ks[j]]
                nIdx == findClosestNodeIndex(nodes, s.position)
            IN  [position |-> s.position,
                 force |-> Term("penalty*U/-1000", u[nIdx * 2 + 1].ix, u[nIdx * 2 + 1].rhs),
                 moment |-> IF s.type = "FIXED"
                            THEN Term("penalty*U/1000", u[nIdx * 2 + 2].ix, u[nIdx * 2 + 2].rhs)
                            ELSE ZeroVal,
                 label |-> <<"R", ks[j]>>,
                 id |-> s.id]]

ReactionsOf(sup, nodes, u) ==
    LET filtered == NonHinge(sup)
    IN  [idx \in 1..Len(filtered) |->
            LET s == filtered[idx]
                nIdx == findClosestNodeIndex(nodes, s.position)
            IN  [position |-> s.position,
                 force |-> Term("penalty*U/-1000", u[nIdx * 2 + 1].ix, u[nIdx * 2 + 1].rhs),
                 moment |-> IF s.type = "FIXED"
                            THEN Term("penalty*U/1000", u[nIdx * 2 + 2].ix, u[nIdx * 2 + 2].rhs)
                            ELSE ZeroVal,
                 label |-> <<"R", idx>>,
                 id |-> s.id]]

EmptyIld == [id \in {} |-> <<>>]

IldKeysOfEverySupport(sup) == { sup[k].id : k \in 1..Len(sup) }

IldKeys(sup) == { sup[k].id : k \in { i \in 1..Len(sup) : sup[i].type # "HINGE" } }

RECURSIVE SumReactions(_, _)
SumReactions(sup, k) ==
    IF k > Len(sup) THEN 0
    ELSE (IF sup[k].type = "FIXED" THEN 2
          ELSE IF sup[k].type = "HINGE" THEN 0 ELSE 1)
         + SumReactions(sup, k + 1)

ReactionCountOf(sup) == SumReactions(sup, 1)

IsStableFromTwo(rc) == rc >= 2

IsStableOf(rc) == rc >= 3

DeterminacyIgnoringHinges(rc, hc) == rc - 3

DeterminacyOf(rc, hc) == rc - 3 - hc

----------------------------------------------------------------------------
(* Influence lines.                                                        *)

steps == 30

StationXOverThirtyOne(i, L) == RMul(Rat(i, steps + 1), L)

StationX(i, L) == RMul(Rat(i, steps), L)

UnitLoad(x) ==
    << [id |-> "unit", type |-> "POINT", magnitude |-> 1, endMagnitude |-> Undefined,
        position |-> x, endPosition |-> Undefined] >>

SideForStrictlyLeft(x, probe) == IF RLt(x, probe) THEN "right" ELSE "left"

SideFor(x, probe) == IF RLe(x, probe) THEN "right" ELSE "left"

SolveUnit(lu, nodes, hinges, i, L) ==
    Solve(lu, buildLoadVector(nodes, hinges, UnitLoad(StationX(i, L)), i))

IldReactionPointsAt(lu, sup, nodes, hinges, id, i, L) ==
    LET x == StationX(i, L)
        U_ild == SolveUnit(lu, nodes, hinges, i, L)
        mine == SelectSeq(NonHinge(sup), LAMBDA s : s.id = id)
    IN  [j \in 1..Len(mine) |->
            LET nIdx == findClosestNodeIndex(nodes, mine[j].position)
            IN  [x |-> x,
                 value |-> Term("penalty*U/-1000",
                                U_ild[nIdx * 2 + 1].ix, U_ild[nIdx * 2 + 1].rhs)]]

IldReactionList(lu, sup, nodes, hinges, id, L) ==
    Flatten([k \in 1..(steps + 1) |->
                IldReactionPointsAt(lu, sup, nodes, hinges, id, k - 1, L)],
            1, steps + 1)

IldAtProbe(lu, nodes, hinges, probe, L, field) ==
    [k \in 1..(steps + 1) |->
        LET i == k - 1
            x == StationX(i, L)
            U_ild == SolveUnit(lu, nodes, hinges, i, L)
            int_ild == getInternalAt(nodes, U_ild, probe, SideFor(x, probe))
        IN  [x |-> x, value |-> int_ild[field]]]

----------------------------------------------------------------------------
(* The call: arguments, then one action per stage of analyzeBeam.          *)

ShortBeamInputs ==
    ConfigPool \X SeqsUpTo(SupportPool, MaxSupports)
               \X SeqsUpTo(LoadPool, MaxLoads) \X ProbePool

\* Beams longer than 10, where the mesh interval is L/100.
LongBeamInputs ==
    { [length |-> <<20, 1>>, elasticModulus |-> 1, momentOfInertia |-> 1] }
    \X { <<>>,
         << [id |-> "s1", type |-> "PINNED", position |-> <<0, 1>>],
            [id |-> "s2", type |-> "ROLLER", position |-> <<20, 1>>] >>,
         << [id |-> "s3", type |-> "FIXED", position |-> <<0, 1>>],
            [id |-> "s4", type |-> "HINGE", position |-> <<21, 2>>],
            [id |-> "s2", type |-> "ROLLER", position |-> <<20, 1>>] >> }
    \X { <<>>,
         << [id |-> "l2", type |-> "UDL", magnitude |-> 10, endMagnitude |-> Undefined,
             position |-> <<0, 1>>, endPosition |-> <<20, 1>>] >>,
         << [id |-> "l6", type |-> "UDL", magnitude |-> 10, endMagnitude |-> Undefined,
             position |-> <<12, 1>>, endPosition |-> <<8, 1>>],
            [id |-> "l7", type |-> "POINT", magnitude |-> 10, endMagnitude |-> Undefined,
             position |-> <<10, 1>>, endPosition |-> Undefined] >>,
         << [id |-> "l8", type |-> "UVL", magnitude |-> 10, endMagnitude |-> <<5, 1>>,
             position |-> <<5, 1>>, endPosition |-> <<5, 1>>],
            [id |-> "l9", type |-> "MOMENT", magnitude |-> 10, endMagnitude |-> Undefined,
             position |-> <<15, 1>>, endPosition |-> Undefined] >> }
    \X { <<10, 1>>, <<1, 4>> }

Inputs == ShortBeamInputs \cup LongBeamInputs

UnitSolvesRefactorizing ==
    Flatten([k \in 1..(steps + 1) |->
                << [op |-> "factorize"], [op |-> "solve", rhs |-> k - 1] >>],
            1, steps + 1)

\* The solver events of the influence-line loop, one per station.
UnitSolves == [k \in 1..(steps + 1) |-> [op |-> "solve", rhs |-> k - 1]]

NoElem == [pc |-> "idle"]

NoStiff == [pc |-> "idle"]

NoLU == [pc |-> "idle"]

NoApp == [pc |-> "idle"]

AuxIdle == elem = NoElem /\ stiff = NoStiff /\ lusolver = NoLU /\ app = NoApp

Enter(in) ==
    /\ config = in[1] /\ supports = in[2] /\ loads = in[3] /\ probeX = in[4]
    /\ pc = "guard"
    /\ outcome = "none"
    /\ finalNodes = <<>> /\ hingeNodes = {} /\ K = NoMatrix /\ solver = NoSolver
    /\ F_main = NoVector /\ U = <<>>
    /\ shear = <<>> /\ moment = <<>> /\ deflection = <<>>
    /\ reactions = <<>> /\ ildReactions = EmptyIld
    /\ ildShearAtProbe = <<>> /\ ildMomentAtProbe = <<>>
    /\ reactionCount = 0 /\ hingesCount = 0 /\ isStable = FALSE
    /\ result = <<>>
    /\ log = <<>>

Init == memo = <<>> /\ AuxIdle /\ \E in \in Inputs : Enter(in)

Guard ==
    /\ pc = "guard"
    /\ IF GuardRejects(config)
       THEN pc' = "done" /\ outcome' = "threw"
       ELSE pc' = "mesh" /\ outcome' = outcome
    /\ UNCHANGED <<args, locals, result, memo, log, aux>>

Mesh ==
    /\ pc = "mesh"
    /\ finalNodes' = GenerateNodes(config.length, supports, loads, probeX)
    /\ pc' = "assemble"
    /\ UNCHANGED <<args, outcome, hingeNodes, K, solver, F_main, U, shear, moment,
                   deflection, reactions, ildReactions, ildShearAtProbe,
                   ildMomentAtProbe, reactionCount, hingesCount, isStable, result, memo, log, aux>>

Assemble ==
    /\ pc = "assemble"
    /\ hingeNodes' = HingeNodesOf(supports, finalNodes)
    /\ K' = AssembleK(finalNodes, hingeNodes', supports)
    /\ pc' = "factorize"
    /\ UNCHANGED <<args, outcome, finalNodes, solver, F_main, U, shear, moment,
                   deflection, reactions, ildReactions, ildShearAtProbe,
                   ildMomentAtProbe, reactionCount, hingesCount, isStable, result, memo, log, aux>>

Factorize ==
    /\ pc = "factorize"
    /\ solver' = LUSolver(K)
    /\ log' = Append(log, [op |-> "factorize"])
    /\ pc' = "solve"
    /\ UNCHANGED <<args, outcome, finalNodes, hingeNodes, K, F_main, U, shear, moment,
                   deflection, reactions, ildReactions, ildShearAtProbe,
                   ildMomentAtProbe, reactionCount, hingesCount, isStable, result, memo, aux>>

SolveMain ==
    /\ pc = "solve"
    /\ F_main' = buildLoadVector(finalNodes, hingeNodes, loads, MainRhs)
    /\ U' = Solve(solver, F_main')
    /\ log' = Append(log, [op |-> "solve", rhs |-> MainRhs])
    /\ pc' = "recover"
    /\ UNCHANGED <<args, outcome, finalNodes, hingeNodes, K, solver, shear, moment,
                   deflection, reactions, ildReactions, ildShearAtProbe,
                   ildMomentAtProbe, reactionCount, hingesCount, isStable, result, memo, aux>>

Recover ==
    /\ pc = "recover"
    /\ LET ints == InternalAtNodes(finalNodes, U)
       IN  /\ shear' = [i \in 1..Len(finalNodes) |-> ints[i].shear]
           /\ moment' = [i \in 1..Len(finalNodes) |-> ints[i].moment]
    /\ deflection' = DeflectionOf(U)
    /\ pc' = "reactions"
    /\ UNCHANGED <<args, outcome, finalNodes, hingeNodes, K, solver, F_main, U,
                   reactions, ildReactions, ildShearAtProbe,
                   ildMomentAtProbe, reactionCount, hingesCount, isStable, result, memo, log, aux>>

ReactionsInPlace ==
    /\ pc = "reactions"
    /\ supports' = NonHinge(supports)
    /\ reactions' = ReactionsOf(supports', finalNodes, U)
    /\ ildReactions' = [id \in IldKeys(supports') |-> <<>>]
    /\ reactionCount' = ReactionCountOf(supports')
    /\ hingesCount' = Cardinality(hingeNodes)
    /\ isStable' = IsStableOf(reactionCount')
    /\ pc' = "ild"
    /\ UNCHANGED <<config, loads, probeX, outcome, finalNodes, hingeNodes, K, solver,
                   F_main, U, shear, moment, deflection, ildShearAtProbe,
                   ildMomentAtProbe, result, memo, log, aux>>

\* hingesCount taken as the number of HINGE supports
ReactionsCountingHingeSupports ==
    /\ pc = "reactions"
    /\ reactions' = ReactionsOf(supports, finalNodes, U)
    /\ ildReactions' = [id \in IldKeys(supports) |-> <<>>]
    /\ reactionCount' = ReactionCountOf(supports)
    /\ hingesCount' = Cardinality({ i \in 1..Len(supports) : supports[i].type = "HINGE" })
    /\ isStable' = IsStableOf(reactionCount')
    /\ pc' = "ild"
    /\ UNCHANGED <<args, outcome, finalNodes, hingeNodes, K, solver, F_main, U,
                   shear, moment, deflection, ildShearAtProbe,
                   ildMomentAtProbe, result, memo, log, aux>>

Reactions ==
    /\ pc = "reactions"
    /\ reactions' = ReactionsOf(supports, finalNodes, U)
    /\ ildReactions' = [id \in IldKeys(supports) |-> <<>>]
    /\ reactionCount' = ReactionCountOf(supports)
    /\ hingesCount' = Cardinality(hingeNodes)
    /\ isStable' = IsStableOf(reactionCount')
    /\ pc' = "ild"
    /\ UNCHANGED <<args, outcome, finalNodes, hingeNodes, K, solver, F_main, U,
                   shear, moment, deflection, ildShearAtProbe,
                   ildMomentAtProbe, result, memo, log, aux>>

InfluenceLines ==
    /\ pc = "ild"
    /\ IF isStable
       THEN /\ ildReactions' =
                 [id \in DOMAIN ildReactions |->
                     IldReactionList(solver, supports, finalNodes, hingeNodes,
                                     id, config.length)]
            /\ ildShearAtProbe' =
                 IldAtProbe(solver, finalNodes, hingeNodes, probeX, config.length, "shear")
            /\ ildMomentAtProbe' =
                 IldAtProbe(solver, finalNodes, hingeNodes, probeX, config.length, "moment")
       ELSE UNCHANGED <<ildReactions, ildShearAtProbe, ildMomentAtProbe>>
    /\ log' = IF isStable THEN log \o UnitSolves ELSE log
    /\ pc' = "return"
    /\ UNCHANGED <<args, outcome, finalNodes, hingeNodes, K, solver, F_main, U,
                   shear, moment, deflection, reactions,
                   reactionCount, hingesCount, isStable, result, memo, aux>>

Return ==
    /\ pc = "return"
    /\ result' = << [nodes |-> finalNodes,
                     shearForce |-> shear,
                     bendingMoment |-> moment,
                     deflection |-> deflection,
                     reactions |-> reactions,
                     determinacy |-> DeterminacyOf(reactionCount, hingesCount),
                     isStable |-> isStable,
                     ildReactions |-> ildReactions,
                     ildShearAtProbe |-> ildShearAtProbe,
                     ildMomentAtProbe |-> ildMomentAtProbe] >>
    /\ outcome' = "returned"
    /\ pc' = "done"
    /\ UNCHANGED <<args, locals, memo, log, aux>>

Next ==
    \/ Guard \/ Mesh \/ Assemble \/ Factorize \/ SolveMain
    \/ Recover \/ Reactions \/ InfluenceLines \/ Return

Spec == Init /\ [][Next]_vars

----------------------------------------------------------------------------
(* Repeated calls: the caller invokes analyzeBeam again with any arguments *)
(* once a call has ended.  memo keeps the first call that ended.           *)

PureInputs ==
    { [length |-> <<1, 5>>, elasticModulus |-> 1, momentOfInertia |-> 1],
      [length |-> <<0, 1>>, elasticModulus |-> 1, momentOfInertia |-> 1] }
    \X SeqsUpTo({ [id |-> "s3", type |-> "FIXED", position |-> <<0, 1>>],
                  [id |-> "s4", type |-> "HINGE", position |-> <<3, 20>>] }, MaxSupports)
    \X SeqsUpTo({ [id |-> "l3", type |-> "UVL", magnitude |-> 10,
                   endMagnitude |-> <<5, 1>>,
                   position |-> <<1, 10>>, endPosition |-> <<3, 10>>] }, MaxLoads)
    \X { <<1, 4>> }

Call ==
    /\ pc = "done"
    /\ memo' = IF memo = <<>>
               THEN << [in |-> args, outcome |-> outcome, result |-> result] >>
               ELSE memo
    /\ \E in \in PureInputs :
          /\ config' = in[1] /\ supports' = in[2] /\ loads' = in[3] /\ probeX' = in[4]
    /\ pc' = "guard"
    /\ outcome' = "none"
    /\ finalNodes' = <<>> /\ hingeNodes' = {} /\ K' = NoMatrix /\ solver' = NoSolver
    /\ F_main' = NoVector /\ U' = <<>>
    /\ shear' = <<>> /\ moment' = <<>> /\ deflection' = <<>>
    /\ reactions' = <<>> /\ ildReactions' = EmptyIld
    /\ ildShearAtProbe' = <<>> /\ ildMomentAtProbe' = <<>>
    /\ reactionCount' = 0 /\ hingesCount' = 0 /\ isStable' = FALSE
    /\ result' = <<>>
    /\ log' = <<>>
    /\ UNCHANGED aux

InitPure == memo = <<>> /\ AuxIdle /\ \E in \in PureInputs : Enter(in)

NextPure == Call \/ Next

SpecPure == InitPure /\ [][NextPure]_vars

----------------------------------------------------------------------------
(* Element arithmetic, exact: elementStiffness, applyMomentRelease and the *)
(* element part of getInternalAt.  A 4x4 matrix is a sequence of rows; the *)
(* source entry ke[i][j] is ke[i + 1][j + 1].                              *)

RNeg(a) == <<-a[1], a[2]>>

Zero4 == <<Zero, Zero, Zero, Zero>>

\* |v| < 1e-12, computed without leaving 32 bits.
BelowReleaseTolerance(v) ==
    LET n == Abs(v[1])
    IN  n < 2000 /\ n * 1000000 <= (v[2] - 1) \div 1000000

elementStiffnessSignSlip(EI, L) ==
    LET L2 == RMul(L, L)
        L3 == RMul(L2, L)
        k12 == RDiv(RMul(Rat(12, 1), EI), L3)
        k6 == RDiv(RMul(Rat(6, 1), EI), L2)
        k4 == RDiv(RMul(Rat(4, 1), EI), L)
        k2 == RDiv(RMul(Rat(2, 1), EI), L)
    IN  << <<k12, k6, RNeg(k12), k6>>,
           <<k6, k4, k6, k2>>,
           <<RNeg(k12), RNeg(k6), k12, RNeg(k6)>>,
           <<k6, k2, RNeg(k6), k4>> >>

elementStiffness(EI, L) ==
    LET L2 == RMul(L, L)
        L3 == RMul(L2, L)
        k12 == RDiv(RMul(Rat(12, 1), EI), L3)
        k6 == RDiv(RMul(Rat(6, 1), EI), L2)
        k4 == RDiv(RMul(Rat(4, 1), EI), L)
        k2 == RDiv(RMul(Rat(2, 1), EI), L)
    IN  << <<k12, k6, RNeg(k12), k6>>,
           <<k6, k4, RNeg(k6), k2>>,
           <<RNeg(k12), RNeg(k6), k12, RNeg(k6)>>,
           <<k6, k2, RNeg(k6), k4>> >>

\* One assignment of the inner loop: ke[i][j] is overwritten from the entries
\* ke[i][r] and ke[r][j] as they are at that moment.
ReleaseCell(m, r, krr, i, j) ==
    [m EXCEPT !.ke[i + 1][j + 1] =
        RSub(m.ke[i + 1][j + 1],
             RDiv(RMul(m.ke[i + 1][r + 1], m.ke[r + 1][j + 1]), krr))]

RECURSIVE ReleaseCols(_, _, _, _, _)
ReleaseCols(m, r, krr, i, j) ==
    IF j > 3 THEN m
    ELSE ReleaseCols(ReleaseCell(m, r, krr, i, j), r, krr, i, j + 1)

RECURSIVE ReleaseRows(_, _, _, _, _)
ReleaseRows(m, r, krr, fr, i) ==
    IF i > 3 THEN m
    ELSE LET m1 == [m EXCEPT !.fe[i + 1] =
                        RSub(m.fe[i + 1], RMul(RDiv(m.ke[i + 1][r + 1], krr), fr))]
         IN  ReleaseRows(ReleaseCols(m1, r, krr, i, 0), r, krr, fr, i + 1)

ReleaseDof(m, r) ==
    LET krr == m.ke[r + 1][r + 1]
    IN  IF BelowReleaseTolerance(krr) THEN m
        ELSE ReleaseRows(m, r, krr, m.fe[r + 1], 0)

Releases(releaseStart, releaseEnd) ==
    (IF releaseStart THEN <<1>> ELSE <<>>) \o (IF releaseEnd THEN <<3>> ELSE <<>>)

RECURSIVE ReleaseAll(_, _, _)
ReleaseAll(m, rs, k) ==
    IF k > Len(rs) THEN m ELSE ReleaseAll(ReleaseDof(m, rs[k]), rs, k + 1)

\* The values of ke and fe after the call, as [ke |-> ..., fe |-> ...].
applyMomentRelease(ke, fe, releaseStart, releaseEnd) ==
    ReleaseAll([ke |-> ke, fe |-> fe], Releases(releaseStart, releaseEnd), 1)


\* The fixed-end forces one distributed load adds to fe on the element x1..x2.
LoadFe(x1, x2, load) ==
    IF ~(IsDistributed(load) /\ Overlaps(x1, x2, load)) THEN Zero4
    ELSE LET xA == RMax(x1, load.position)
             xB == IF RLt(load.endPosition, x2) THEN load.endPosition ELSE x2
             wStart == Rat(load.magnitude, 1)
             wEnd == IF load.type = "UVL" /\ load.endMagnitude # Undefined
                     THEN load.endMagnitude ELSE wStart
             span == RSub(load.endPosition, load.position)
             t1 == RDiv(RSub(xA, load.position), span)
             t2 == RDiv(RSub(xB, load.position), span)
             q1 == RMul(RAdd(wStart, RMul(RSub(wEnd, wStart), t1)), Rat(1000, 1))
             q2 == RMul(RAdd(wStart, RMul(RSub(wEnd, wStart), t2)), Rat(1000, 1))
             loadLen == RSub(xB, xA)
             quarter == RDiv(RMul(RAdd(q1, q2), loadLen), Rat(4, 1))
             mFE == RDiv(RMul(RMul(RAdd(q1, q2), loadLen), loadLen), Rat(24, 1))
         IN  <<RNeg(quarter), RNeg(mFE), RNeg(quarter), mFE>>

RECURSIVE ElementFe(_, _, _, _)
ElementFe(x1, x2, currentLoads, k) ==
    IF k > Len(currentLoads) THEN Zero4
    ELSE LET rest == ElementFe(x1, x2, currentLoads, k + 1)
             mine == LoadFe(x1, x2, currentLoads[k])
         IN  [i \in 1..4 |-> RAdd(mine[i], rest[i])]

RECURSIVE Dot(_, _, _)
Dot(row, v, c) ==
    IF c > Len(row) THEN Zero ELSE RAdd(RMul(row[c], v[c]), Dot(row, v, c + 1))

\* f = fe + ke * u_e
EndForces(ke, fe, u_e) == [r \in 1..4 |-> RAdd(fe[r], Dot(ke[r], u_e, 1))]

\* What getInternalAt returns from f: the start pair when the target node is
\* the element's first node, the end pair otherwise.
InternalFrom(f, atStart) ==
    IF atStart
    THEN [shear |-> RDiv(f[1], Rat(1000, 1)), moment |-> RDiv(RNeg(f[2]), Rat(1000, 1))]
    ELSE [shear |-> RDiv(RNeg(f[3]), Rat(1000, 1)), moment |-> RDiv(f[4], Rat(1000, 1))]

----------------------------------------------------------------------------
(* One element going through getInternalAt: stiffness and fixed-end        *)
(* forces, moment release, end forces.                                     *)

ElementEIs == { <<1, 1>>, <<2, 1>> }

ElementSpans == { <<Zero, <<1, 10>>>>, <<<<1, 10>>, <<3, 10>>>>, <<Zero, <<2, 1>>>> }

ElementLoads ==
    { <<>>,
      << [id |-> "l2", type |-> "UDL", magnitude |-> 10, endMagnitude |-> Undefined,
          position |-> <<0, 1>>, endPosition |-> <<2, 1>>] >>,
      << [id |-> "l3", type |-> "UVL", magnitude |-> 10, endMagnitude |-> <<5, 1>>,
          position |-> <<1, 10>>, endPosition |-> <<3, 10>>] >> }

ElementDisplacements ==
    { Zero4,
      <<<<1, 1000>>, Zero, Zero, Zero>>,
      <<Zero, Zero, <<-1, 1000>>, Zero>>,
      <<Zero, Zero, Zero, <<1, 100>>>>,
      <<<<1, 500>>, <<-1, 100>>, <<3, 1000>>, <<1, 200>>>> }

\* Everything of the analyzeBeam call at rest while another machine runs.
NoCall ==
    /\ config = [length |-> <<1, 5>>, elasticModulus |-> 1, momentOfInertia |-> 1]
    /\ supports = <<>> /\ loads = <<>> /\ probeX = Zero
    /\ pc = "idle" /\ outcome = "none"
    /\ finalNodes = <<>> /\ hingeNodes = {} /\ K = NoMatrix /\ solver = NoSolver
    /\ F_main = NoVector /\ U = <<>>
    /\ shear = <<>> /\ moment = <<>> /\ deflection = <<>>
    /\ reactions = <<>> /\ ildReactions = EmptyIld
    /\ ildShearAtProbe = <<>> /\ ildMomentAtProbe = <<>>
    /\ reactionCount = 0 /\ hingesCount = 0 /\ isStable = FALSE
    /\ result = <<>> /\ memo = <<>> /\ log = <<>>

call == <<args, pc, outcome, locals, result, memo, log>>

InitElement ==
    /\ NoCall /\ stiff = NoStiff /\ lusolver = NoLU /\ app = NoApp
    /\ \E EI \in ElementEIs, span \in ElementSpans, lds \in ElementLoads,
          rs \in BOOLEAN, re \in BOOLEAN, u \in ElementDisplacements, st \in BOOLEAN :
          elem = [pc |-> "stiffness", EI |-> EI, x1 |-> span[1], x2 |-> span[2],
                  loads |-> lds, releaseStart |-> rs, releaseEnd |-> re,
                  u_e |-> u, atStart |-> st,
                  ke |-> <<>>, fe |-> <<>>, keBefore |-> <<>>, feBefore |-> <<>>,
                  f |-> <<>>, out |-> <<>>]

ElementStiffness ==
    /\ elem.pc = "stiffness"
    /\ elem' = [elem EXCEPT !.pc = "release",
                            !.ke = elementStiffness(elem.EI, RSub(elem.x2, elem.x1)),
                            !.fe = ElementFe(elem.x1, elem.x2, elem.loads, 1)]
    /\ UNCHANGED <<call, stiff, lusolver, app>>

ElementRelease ==
    /\ elem.pc = "release"
    /\ LET m == IF elem.releaseStart \/ elem.releaseEnd
                THEN applyMomentRelease(elem.ke, elem.fe,
                                        elem.releaseStart, elem.releaseEnd)
                ELSE [ke |-> elem.ke, fe |-> elem.fe]
       IN  elem' = [elem EXCEPT !.pc = "forces",
                                !.keBefore = elem.ke, !.feBefore = elem.fe,
                                !.ke = m.ke, !.fe = m.fe]
    /\ UNCHANGED <<call, stiff, lusolver, app>>

ElementForces ==
    /\ elem.pc = "forces"
    /\ LET f == EndForces(elem.ke, elem.fe, elem.u_e)
       IN  elem' = [elem EXCEPT !.pc = "done", !.f = f,
                                !.out = <<InternalFrom(f, elem.atStart)>>]
    /\ UNCHANGED <<call, stiff, lusolver, app>>

NextElement == ElementStiffness \/ ElementRelease \/ ElementForces

SpecElement == InitElement /\ [][NextElement]_vars

----------------------------------------------------------------------------
(* The assembly of K (element scatter, then penalties), one loop iteration *)
(* per step.  An entry of K is [v |-> rational, penalties |-> n] and       *)
(* stands for v + n * penalty, penalty being 1e18 * EI, which is kept as a *)
(* symbol.                                                                 *)

StiffConfigs ==
    { [length |-> <<1, 5>>,  elasticModulus |-> 200, momentOfInertia |-> 5000],
      [length |-> <<3, 10>>, elasticModulus |-> 200, momentOfInertia |-> 5000] }

StiffSupports ==
    { [id |-> "s3", type |-> "FIXED",  position |-> <<0, 1>>],
      [id |-> "s1", type |-> "PINNED", position |-> <<3, 10>>],
      [id |-> "s2", type |-> "ROLLER", position |-> <<1, 5>>],
      [id |-> "s4", type |-> "HINGE",  position |-> <<1, 10>>],
      [id |-> "s5", type |-> "HINGE",  position |-> <<3, 20>>],
      [id |-> "s6", type |-> "HINGE",  position |-> <<0, 1>>] }

KEntry(v, n) == [v |-> v, penalties |-> n]

KZero(dim) == [a \in 1..dim |-> [b \in 1..dim |-> KEntry(Zero, 0)]]

\* K[idxs[r]][idxs[c]] += ke[r][c] for idxs = 2i, 2i+1, 2i+2, 2i+3
Scatter(Km, i, ke) ==
    [a \in 1..Len(Km) |-> [b \in 1..Len(Km) |->
        LET r == (a - 1) - 2 * i
            c == (b - 1) - 2 * i
        IN  IF r \in 0..3 /\ c \in 0..3
            THEN KEntry(RAdd(Km[a][b].v, ke[r + 1][c + 1]), Km[a][b].penalties)
            ELSE Km[a][b]]]

\* K[d][d] += penalty
AddPenaltyAt(Km, d) ==
    [Km EXCEPT ![d + 1][d + 1] = KEntry(@.v, @.penalties + 1)]

PenaltiesOfTranslationOnly(Km, s, nodes) ==
    AddPenaltyAt(Km, findClosestNodeIndex(nodes, s.position) * 2)

PenaltiesOf(Km, s, nodes) ==
    LET idx == findClosestNodeIndex(nodes, s.position)
    IN  IF s.type = "FIXED"
        THEN AddPenaltyAt(AddPenaltyAt(Km, idx * 2), idx * 2 + 1)
        ELSE IF s.type \in {"PINNED", "ROLLER"} THEN AddPenaltyAt(Km, idx * 2)
        ELSE Km

ElementKe(EI, nodes, hinges, i) ==
    LET ke == elementStiffness(EI, ElementLength(nodes, i))
        releaseStart == i \in hinges
        releaseEnd == (i + 1) \in hinges
    IN  IF releaseStart \/ releaseEnd
        THEN applyMomentRelease(ke, Zero4, releaseStart, releaseEnd).ke
        ELSE ke

InitStiff ==
    /\ NoCall /\ elem = NoElem /\ lusolver = NoLU /\ app = NoApp
    /\ \E cfg \in StiffConfigs, sup \in SeqsUpTo(StiffSupports, MaxSupports) :
          LET nodes == GenerateNodes(cfg.length, sup, <<>>, Zero)
          IN  stiff = [pc |-> "elements", EI |-> EIof(cfg), nodes |-> nodes,
                       hingeNodes |-> HingeNodesOf(sup, nodes), supports |-> sup,
                       i |-> 0, K |-> KZero(Len(nodes) * 2)]

ScatterElement ==
    /\ stiff.pc = "elements"
    /\ stiff.i < Len(stiff.nodes) - 1
    /\ stiff' = [stiff EXCEPT
                    !.i = @ + 1,
                    !.K = IF RLe(ElementLength(stiff.nodes, stiff.i), Zero) THEN @
                          ELSE Scatter(@, stiff.i,
                                       ElementKe(stiff.EI, stiff.nodes,
                                                 stiff.hingeNodes, stiff.i))]
    /\ UNCHANGED <<call, elem, lusolver, app>>

ElementsDone ==
    /\ stiff.pc = "elements"
    /\ stiff.i = Len(stiff.nodes) - 1
    /\ stiff' = [stiff EXCEPT !.pc = "penalties", !.i = 0]
    /\ UNCHANGED <<call, elem, lusolver, app>>

AddPenalty ==
    /\ stiff.pc = "penalties"
    /\ stiff.i < Len(stiff.supports)
    /\ stiff' = [stiff EXCEPT
                    !.i = @ + 1,
                    !.K = PenaltiesOf(@, stiff.supports[stiff.i + 1], stiff.nodes)]
    /\ UNCHANGED <<call, elem, lusolver, app>>

PenaltiesDone ==
    /\ stiff.pc = "penalties"
    /\ stiff.i = Len(stiff.supports)
    /\ stiff' = [stiff EXCEPT !.pc = "assembled"]
    /\ UNCHANGED <<call, elem, lusolver, app>>

NextStiff == ScatterElement \/ ElementsDone \/ AddPenalty \/ PenaltiesDone

SpecStiff == InitStiff /\ [][NextStiff]_vars

----------------------------------------------------------------------------
(* Exact arithmetic on numbers of any size, for the matrices that hold the *)
(* penalty 1e18 * EI.  A magnitude is a sequence of base-10000 digits, the *)
(* lowest first, without a zero at the top; 0 is <<>>.  A number is        *)
(* [s |-> -1 | 0 | 1, n |-> magnitude, d |-> magnitude], n/d in lowest     *)
(* terms.                                                                  *)

MDigitAt(a, i) == IF i <= Len(a) THEN a[i] ELSE 0

\* a without the zeros at its top
RECURSIVE MTrim(_)
MTrim(a) ==
    IF a = <<>> THEN a
    ELSE IF a[Len(a)] = 0 THEN MTrim(SubSeq(a, 1, Len(a) - 1)) ELSE a

RECURSIVE MOf(_)
MOf(k) == IF k = 0 THEN <<>> ELSE <<k % 10000>> \o MOf(k \div 10000)

RECURSIVE MAddFrom(_, _, _, _)
MAddFrom(a, b, i, carry) ==
    IF i > Len(a) /\ i > Len(b) THEN (IF carry = 0 THEN <<>> ELSE <<carry>>)
    ELSE LET t == MDigitAt(a, i) + MDigitAt(b, i) + carry
         IN  <<t % 10000>> \o MAddFrom(a, b, i + 1, t \div 10000)

MAdd(a, b) == MTrim(MAddFrom(a, b, 1, 0))

\* a - b for a >= b
RECURSIVE MSubFrom(_, _, _, _)
MSubFrom(a, b, i, borrow) ==
    IF i > Len(a) THEN <<>>
    ELSE LET t == a[i] - MDigitAt(b, i) - borrow
         IN  IF t < 0 THEN <<t + 10000>> \o MSubFrom(a, b, i + 1, 1)
             ELSE <<t>> \o MSubFrom(a, b, i + 1, 0)

MSub(a, b) == MTrim(MSubFrom(a, b, 1, 0))

RECURSIVE MCmpFrom(_, _, _)
MCmpFrom(a, b, i) ==
    IF i = 0 THEN 0
    ELSE IF a[i] < b[i] THEN -1
    ELSE IF a[i] > b[i] THEN 1
    ELSE MCmpFrom(a, b, i - 1)

\* -1, 0 or 1 as a < b, a = b, a > b
MCmp(a, b) ==
    IF Len(a) < Len(b) THEN -1
    ELSE IF Len(a) > Len(b) THEN 1
    ELSE MCmpFrom(a, b, Len(a))

RECURSIVE MMulDigitFrom(_, _, _, _)
MMulDigitFrom(a, k, i, carry) ==
    IF i > Len(a) THEN (IF carry = 0 THEN <<>> ELSE <<carry>>)
    ELSE LET t == a[i] * k + carry
         IN  <<t % 10000>> \o MMulDigitFrom(a, k, i + 1, t \div 10000)

\* a * k for a digit k
MMulDigit(a, k) == IF k = 0 THEN <<>> ELSE MMulDigitFrom(a, k, 1, 0)

\* the sum of a[i] * b[k + 1 - i] over the i from i on
RECURSIVE MColumn(_, _, _, _)
MColumn(a, b, k, i) ==
    IF i > Len(a) \/ i > k THEN 0
    ELSE (IF k + 1 - i <= Len(b) THEN a[i] * b[k + 1 - i] ELSE 0)
         + MColumn(a, b, k, i + 1)

MMul(a, b) ==
    IF a = <<>> \/ b = <<>> THEN <<>> ELSE
    LET n == Len(a) + Len(b)
        column == [k \in 1..n |-> MColumn(a, b, k, 1)]
    IN  MAdd(MAdd([k \in 1..n |-> column[k] % 10000],
                  <<0>> \o [k \in 1..n |-> (column[k] \div 10000) % 10000]),
             <<0, 0>> \o [k \in 1..n |-> column[k] \div 100000000])

\* a * 10000
MShift(a) == IF a = <<>> THEN <<>> ELSE <<0>> \o a

\* the two digits of a from digit i up, as one number
MTwoDigits(a, i) == MDigitAt(a, i + 1) * 10000 + MDigitAt(a, i)

\* the quotient estimated from the top digits of r and b, both scaled so that
\* the top digit of b is at least 5000: at most 2 above the quotient
MEstimate(rs, bs) == Min(MTwoDigits(rs, Len(bs)) \div bs[Len(bs)], 9999)

\* the largest q <= estimate with q * b <= r
MQuotientBelow(r, b, estimate) ==
    IF MCmp(MMulDigit(b, estimate), r) <= 0 THEN estimate
    ELSE IF MCmp(MMulDigit(b, estimate - 1), r) <= 0 THEN estimate - 1
    ELSE estimate - 2

MQuotientScaled(r, b, scale) ==
    MQuotientBelow(r, b, MEstimate(MMulDigit(r, scale), MMulDigit(b, scale)))

\* the largest q with q * b <= r, for b <= r < 10000 * b
MQuotientDigit(r, b) == MQuotientScaled(r, b, 10000 \div (b[Len(b)] + 1))

\* one digit of a long division by b: q0 is the new digit of the quotient q,
\* taken out of the running rest r0
MDivTake(q, r0, b, q0) ==
    [q |-> <<q0>> \o q, r |-> MSub(r0, MMulDigit(b, q0))]

MDivDigit(q, r0, b) ==
    IF MCmp(r0, b) < 0 THEN [q |-> MShift(q), r |-> r0]
    ELSE MDivTake(q, r0, b, MQuotientDigit(r0, b))

MDivStep(up, digit, b) ==
    IF up.r = <<>> /\ digit = 0 THEN [q |-> MShift(up.q), r |-> <<>>]
    ELSE MDivDigit(up.q, <<digit>> \o up.r, b)

\* long division of the digits a[i..] by b # 0: [q |-> quotient, r |-> rest]
RECURSIVE MDivFrom(_, _, _)
MDivFrom(a, b, i) ==
    IF i > Len(a) - Len(b) + 1
    THEN [q |-> <<>>, r |-> MTrim(SubSeq(a, Max(i, 1), Len(a)))]
    ELSE MDivStep(MDivFrom(a, b, i + 1), a[i], b)

MDiv(a, b) == MDivFrom(a, b, 1).q

MMod(a, b) == MDivFrom(a, b, 1).r

\* one division of Euclid's algorithm on the pair <<a, b>>
MEuclid(p) == IF p[2] = <<>> THEN p ELSE <<p[2], MMod(p[1], p[2])>>

\* eight divisions
MEuclid8(p) ==
    IF p[2] = <<>> THEN p
    ELSE MEuclid(MEuclid(MEuclid(MEuclid(MEuclid(MEuclid(MEuclid(MEuclid(p))))))))

\* Euclid, eight divisions per level
RECURSIVE MGcd(_, _)
MGcdOf(p) == IF p[2] = <<>> THEN p[1] ELSE MGcd(p[1], p[2])

MGcd(a, b) == MGcdOf(MEuclid8(<<a, b>>))

QZero == [s |-> 0, n |-> <<>>, d |-> <<1>>]

QReduce(s, n, d, g) ==
    IF g = <<1>> THEN [s |-> s, n |-> n, d |-> d]
    ELSE [s |-> s, n |-> MDiv(n, g), d |-> MDiv(d, g)]

\* s * n / d in lowest terms, for d # 0
QMake(s, n, d) ==
    IF n = <<>> \/ s = 0 THEN QZero
    ELSE IF d = <<1>> THEN [s |-> s, n |-> n, d |-> d]
    ELSE QReduce(s, n, d, MGcd(n, d))

\* the number n / d of two integers, d # 0
Q(n, d) ==
    QMake(IF n = 0 THEN 0 ELSE IF (n < 0) = (d < 0) THEN 1 ELSE -1,
          MOf(Abs(n)), MOf(Abs(d)))

\* the number a rational <<n, d>> stands for
ToQ(r) == Q(r[1], r[2])

QNeg(a) == [a EXCEPT !.s = -a.s]

QAbs(a) == [a EXCEPT !.s = IF a.s = 0 THEN 0 ELSE 1]

\* s * (x + y) / d for opposite signs sa of x and sb of y, by the order of x, y
QDifference(sa, sb, x, y, d, order) ==
    IF order = 0 THEN QZero
    ELSE IF order > 0 THEN QMake(sa, MSub(x, y), d)
    ELSE QMake(sb, MSub(y, x), d)

QSum(sa, sb, x, y, d) ==
    IF x = <<>> \/ y = <<>> \/ d = <<>> THEN QZero
    ELSE IF sa = sb THEN QMake(sa, MAdd(x, y), d)
    ELSE QDifference(sa, sb, x, y, d, MCmp(x, y))

\* over the common denominator a.d * bd for bd = b.d / g, ad = a.d / g
QAddOver(a, b, bd, ad) ==
    IF bd = <<1>> /\ ad = <<1>> THEN QSum(a.s, b.s, a.n, b.n, a.d)
    ELSE QSum(a.s, b.s, MMul(a.n, bd), MMul(b.n, ad), MMul(a.d, bd))

\* for g = gcd(a.d, b.d)
QAddBy(a, b, g) ==
    IF g = <<1>> THEN QAddOver(a, b, b.d, a.d)
    ELSE QAddOver(a, b, MDiv(b.d, g), MDiv(a.d, g))

QAdd(a, b) ==
    IF a.s = 0 THEN b
    ELSE IF b.s = 0 THEN a
    ELSE QAddBy(a, b, MGcd(a.d, b.d))

QSub(a, b) == QAdd(a, QNeg(b))

QCrossOf(s, n1, n2, d1, d2) ==
    IF n1 = <<>> \/ n2 = <<>> \/ d1 = <<>> \/ d2 = <<>> THEN QZero
    ELSE [s |-> s, n |-> MMul(n1, n2), d |-> MMul(d1, d2)]

\* (xn / yd) * (yn / xd) for g = gcd(xn, yd) and h = gcd(yn, xd)
QCrossBy(s, xn, xd, yn, yd, g, h) ==
    IF g = <<1>> /\ h = <<1>> THEN QCrossOf(s, xn, yn, xd, yd)
    ELSE QCrossOf(s, MDiv(xn, g), MDiv(yn, h), MDiv(xd, h), MDiv(yd, g))

QCross(s, xn, xd, yn, yd) ==
    IF s = 0 THEN QZero
    ELSE QCrossBy(s, xn, xd, yn, yd, MGcd(xn, yd), MGcd(yn, xd))

QMul(a, b) == QCross(a.s * b.s, a.n, a.d, b.n, b.d)

\* a / b for b # 0
QDiv(a, b) == QCross(a.s * b.s, a.n, a.d, b.d, b.n)

QLt(a, b) == QSub(a, b).s < 0

\* |a| < 1 / m for a magnitude m
QBelowOneOver(a, m) == MCmp(MMul(a.n, m), a.d) < 0

----------------------------------------------------------------------------
(* LUSolver, exact: the constructor column by column, and solve.  The      *)
(* source entry LU[i][j] is LU[i + 1][j + 1]; pivot holds 0-based rows.    *)

\* |v| < 1e-18; 1e18 is 100 * 10000^4
BelowPivotTolerance(v) == QBelowOneOver(v, <<0, 0, 0, 0, 100>>)

\* |v| < 1e-22; 1e22 is 100 * 10000^5
BelowSolveTolerance(v) == QBelowOneOver(v, <<0, 0, 0, 0, 0, 100>>)

RECURSIVE PivotSearchLastMax(_, _, _, _, _)
PivotSearchLastMax(LU, i, k, max, row) ==
    IF k > Len(LU) - 1 THEN [max |-> max, row |-> row]
    ELSE IF ~QLt(QAbs(LU[k + 1][i + 1]), max)
         THEN PivotSearchLastMax(LU, i, k + 1, QAbs(LU[k + 1][i + 1]), k)
         ELSE PivotSearchLastMax(LU, i, k + 1, max, row)

\* The search for the pivot row of column i: the first row k >= i whose
\* |LU[k][i]| is greater than every one before it, starting from max = 0.
RECURSIVE PivotSearch(_, _, _, _, _)
PivotSearch(LU, i, k, max, row) ==
    IF k > Len(LU) - 1 THEN [max |-> max, row |-> row]
    ELSE IF QLt(max, QAbs(LU[k + 1][i + 1]))
         THEN PivotSearch(LU, i, k + 1, QAbs(LU[k + 1][i + 1]), k)
         ELSE PivotSearch(LU, i, k + 1, max, row)

Swap(s, i, row) ==
    [s EXCEPT ![i + 1] = s[row + 1], ![row + 1] = s[i + 1]]

\* Rows j > i after the elimination with row i: the multiplier in column i,
\* the update in the columns k > i.
EliminateRow(LU, i, j, l) ==
    [b \in 1..Len(LU) |->
        IF b - 1 < i THEN LU[j + 1][b]
        ELSE IF b - 1 = i THEN l
        ELSE QSub(LU[j + 1][b], QMul(l, LU[i + 1][b]))]

Eliminate(LU, i) ==
    [a \in 1..Len(LU) |->
        IF a - 1 <= i THEN LU[a]
        ELSE EliminateRow(LU, i, a - 1, QDiv(LU[a][i + 1], LU[i + 1][i + 1]))]

FactorFoundKeepingPivot(m, i, found) ==
    IF BelowPivotTolerance(found.max) THEN m
    ELSE [LU |-> Eliminate(Swap(m.LU, i, found.row), i), pivot |-> m.pivot]

FactorStepKeepingPivot(m, i) ==
    FactorFoundKeepingPivot(m, i, PivotSearch(m.LU, i, i, QZero, i))

FactorFoundSwappingFirst(m, i, found) ==
    IF BelowPivotTolerance(found.max)
    THEN [LU |-> Swap(m.LU, i, found.row), pivot |-> Swap(m.pivot, i, found.row)]
    ELSE [LU |-> Eliminate(Swap(m.LU, i, found.row), i),
          pivot |-> Swap(m.pivot, i, found.row)]

\* The rest of the iteration once the pivot search has found [max, row].
FactorFound(m, i, found) ==
    IF BelowPivotTolerance(found.max) THEN m
    ELSE [LU |-> Eliminate(Swap(m.LU, i, found.row), i),
          pivot |-> Swap(m.pivot, i, found.row)]

\* One iteration of the constructor's outer loop on [LU, pivot].
FactorStep(m, i) == FactorFound(m, i, PivotSearch(m.LU, i, i, QZero, i))

RECURSIVE QDot(_, _, _)
QDot(row, v, c) ==
    IF c > Len(row) THEN QZero ELSE QAdd(QMul(row[c], v[c]), QDot(row, v, c + 1))

\* y[i] of the forward substitution, appended to y[0..i-1]
ForwardRow(LU, pivot, b, i, y) ==
    Append(y, QSub(b[pivot[i + 1] + 1], QDot(SubSeq(LU[i + 1], 1, i), y, 1)))

\* the forward substitution continued from y[0..i-1], for i = Len(y), to y[0..n-1]
RECURSIVE Forward(_, _, _, _)
Forward(LU, pivot, b, y) ==
    IF Len(y) = Len(LU) THEN y
    ELSE Forward(LU, pivot, b, ForwardRow(LU, pivot, b, Len(y), y))

\* x[i] of the back substitution, put before x[i+1..n-1]
BackwardRow(LU, y, i, x) ==
    IF BelowSolveTolerance(LU[i + 1][i + 1]) THEN <<QZero>> \o x
    ELSE <<QDiv(QSub(y[i + 1], QDot(SubSeq(LU[i + 1], i + 2, Len(LU)), x, 1)),
                LU[i + 1][i + 1])>> \o x

\* the back substitution continued from x[i+1..n-1], for i = n - 1 - Len(x),
\* to x[0..n-1]
RECURSIVE Backward(_, _, _)
Backward(LU, y, x) ==
    IF Len(x) = Len(LU) THEN x
    ELSE Backward(LU, y, BackwardRow(LU, y, Len(LU) - 1 - Len(x), x))

LUSolve(LU, pivot, b) == Backward(LU, Forward(LU, pivot, b, <<>>), <<>>)

MatVec(M, v) == [r \in 1..Len(M) |-> QDot(M[r], v, 1)]

----------------------------------------------------------------------------
(* One LUSolver object: construction from the caller's matrix, then any    *)
(* number of solves.                                                       *)

Ints(row) == [c \in 1..Len(row) |-> Q(row[c], 1)]

\* a vector and a matrix of rationals as numbers of any size
QVector(v) == [c \in 1..Len(v) |-> ToQ(v[c])]

QMatrix(m) == [r \in 1..Len(m) |-> QVector(m[r])]

IntMatrix(rows) == [r \in 1..Len(rows) |-> Ints(rows[r])]

\* K and the load vectors of beams without supports (no penalty term): one
\* element of length 0.1 with EI = 1, plain and with a hinge at node 0; the
\* right-hand sides are the empty main load and the unit loads at the nodes.
UnsupportedSystems ==
    LET ke == elementStiffness(<<1, 1>>, <<1, 10>>)
        bs == { QVector(Zero4), Ints(<<-1000, 0, 0, 0>>), Ints(<<0, 0, -1000, 0>>) }
    IN  { [from |-> "analyzeBeam", matrix |-> QMatrix(ke), bs |-> bs],
          [from |-> "analyzeBeam",
           matrix |-> QMatrix(applyMomentRelease(ke, Zero4, TRUE, FALSE).ke),
           bs |-> bs] }

SmallEntries == {-1, 0, 1, 2}

SmallSystems ==
    { [from |-> "any", matrix |-> IntMatrix(<<<<a, b>>, <<c, d>>>>),
       bs |-> { Ints(<<1, 0>>), Ints(<<0, 1>>), Ints(<<2, -1>>) }] :
        a \in SmallEntries, b \in SmallEntries, c \in SmallEntries, d \in SmallEntries }

\* Matrices with a large term on part of the diagonal, as the penalty makes,
\* and 3x3 matrices that need row exchanges.
LargerSystems ==
    { [from |-> "any",
       matrix |-> IntMatrix(<< <<112, 6, -12, 6>>, <<6, 4, -6, 2>>,
                               <<-12, -6, 112, -6>>, <<6, 2, -6, 4>> >>),
       bs |-> { Ints(<<-10, 0, 0, 0>>), Ints(<<0, 0, -10, 0>>), Ints(<<-5, 1, -5, -1>>) }],
      [from |-> "any",
       matrix |-> IntMatrix(<< <<0, 2, 1>>, <<1, 1, 0>>, <<4, 0, 2>> >>),
       bs |-> { Ints(<<1, 0, 0>>), Ints(<<3, -2, 1>>) }],
      [from |-> "any",
       matrix |-> IntMatrix(<< <<1, 2, 3>>, <<2, 4, 1>>, <<1, 1, 1>> >>),
       bs |-> { Ints(<<1, 0, 0>>), Ints(<<3, -2, 1>>) }],
      [from |-> "any",
       matrix |-> IntMatrix(<< <<1, 2, 3>>, <<-2, 1, 0>>, <<2, 0, 1>> >>),
       bs |-> { Ints(<<1, 0, 0>>), Ints(<<3, -2, 1>>) }] }

\* 1e-20 and 1e-24: below the constructor's 1e-18, above and below solve's 1e-22
TinyEntries ==
    { [s |-> 1, n |-> <<1>>, d |-> <<0, 0, 0, 0, 0, 1>>],
      [s |-> 1, n |-> <<1>>, d |-> <<0, 0, 0, 0, 0, 0, 1>>] }

\* 2x2 matrices whose first column has no entry of magnitude 1e-18, and the
\* 3x3 matrix of zeros
TinySystems ==
    { [from |-> "any", matrix |-> << <<a, Q(b, 1)>>, <<c, Q(d, 1)>> >>,
       bs |-> { Ints(<<1, 0>>), Ints(<<0, 1>>), Ints(<<2, -1>>) }] :
        a \in TinyEntries, c \in TinyEntries \cup {QZero}, b \in {0, 1}, d \in {0, 1} }
      \cup { [from |-> "any",
              matrix |-> IntMatrix(<< <<0, 0, 0>>, <<0, 0, 0>>, <<0, 0, 0>> >>),
              bs |-> { Ints(<<1, 0, 0>>), Ints(<<3, -2, 1>>) }] }

Systems == UnsupportedSystems \cup SmallSystems \cup LargerSystems \cup TinySystems

InitLU ==
    /\ NoCall /\ elem = NoElem /\ stiff = NoStiff /\ app = NoApp
    /\ \E sys \in Systems :
          lusolver = [pc |-> "new", from |-> sys.from, matrix |-> sys.matrix,
                      bs |-> sys.bs, n |-> 0, LU |-> <<>>, pivot |-> <<>>, i |-> 0,
                      arg |-> <<>>, b |-> <<>>, x |-> <<>>, seen |-> {}]

\* this.n, this.LU (a copy of the rows) and the identity pivot
Construct ==
    /\ lusolver.pc = "new"
    /\ lusolver' = [lusolver EXCEPT
                       !.pc = "factor",
                       !.n = Len(lusolver.matrix),
                       !.LU = lusolver.matrix,
                       !.pivot = [k \in 1..Len(lusolver.matrix) |-> k - 1]]
    /\ UNCHANGED <<call, elem, stiff, app>>

FactorColumnOnArgument ==
    /\ lusolver.pc = "factor"
    /\ \E m \in {FactorStep([LU |-> lusolver.LU, pivot |-> lusolver.pivot], lusolver.i)} :
           lusolver' = [lusolver EXCEPT
                           !.LU = m.LU, !.matrix = m.LU, !.pivot = m.pivot,
                           !.i = @ + 1,
                           !.pc = IF lusolver.i + 1 = lusolver.n THEN "ready" ELSE "factor"]
    /\ UNCHANGED <<call, elem, stiff, app>>

FactorColumn ==
    /\ lusolver.pc = "factor"
    /\ \E m \in {FactorStep([LU |-> lusolver.LU, pivot |-> lusolver.pivot], lusolver.i)} :
           lusolver' = [lusolver EXCEPT
                           !.LU = m.LU, !.pivot = m.pivot,
                           !.i = @ + 1,
                           !.pc = IF lusolver.i + 1 = lusolver.n THEN "ready" ELSE "factor"]
    /\ UNCHANGED <<call, elem, stiff, app>>

\* x = solver.solve(b); arg is b as passed, b is the caller's array afterwards
SolveCall ==
    /\ lusolver.pc = "ready"
    /\ \E b \in lusolver.bs :
          \E x \in {LUSolve(lusolver.LU, lusolver.pivot, b)} :
             lusolver' = [lusolver EXCEPT
                             !.arg = b, !.b = b, !.x = x,
                             !.seen = @ \cup {<<b, x>>}]
    /\ UNCHANGED <<call, elem, stiff, app>>

NextLU == Construct \/ FactorColumn \/ SolveCall

SpecLU == InitLU /\ [][NextLU]_vars

----------------------------------------------------------------------------
(* One beam solved in exact arithmetic: K assembled as above, the LUSolver *)
(* built on K with its penalty terms, F_main, U and the reactions.         *)

\* 1e18 * EI; 1e18 is 100 * 10000^4
PenaltyOf(EI) == QMul([s |-> 1, n |-> <<0, 0, 0, 0, 100>>, d |-> <<1>>], ToQ(EI))

\* matrixForLU: the entries of K, penalty terms included
MatrixForLU(Km, EI) ==
    [a \in 1..Len(Km) |-> [b \in 1..Len(Km) |->
        QAdd(ToQ(Km[a][b].v), QMul(Q(Km[a][b].penalties, 1), PenaltyOf(EI)))]]

\* fe of element i as buildLoadVector adds it to F
LoadVectorFe(EI, nodes, hinges, currentLoads, i) ==
    LET fe == ElementFe(nodes[i + 1], nodes[i + 2], currentLoads, 1)
        releaseStart == i \in hinges
        releaseEnd == (i + 1) \in hinges
    IN  IF releaseStart \/ releaseEnd
        THEN applyMomentRelease(elementStiffness(EI, ElementLength(nodes, i)),
                                fe, releaseStart, releaseEnd).fe
        ELSE fe

\* F after the loop over the elements from i on
RECURSIVE AddElementLoads(_, _, _, _, _, _)
AddElementLoads(F, EI, nodes, hinges, currentLoads, i) ==
    IF i >= Len(nodes) - 1 THEN F
    ELSE IF RLe(ElementLength(nodes, i), Zero)
    THEN AddElementLoads(F, EI, nodes, hinges, currentLoads, i + 1)
    ELSE LET fe == LoadVectorFe(EI, nodes, hinges, currentLoads, i)
             F1 == [d \in 1..Len(F) |->
                       IF (d - 1) - 2 * i \in 0..3
                       THEN RAdd(F[d], fe[d - 2 * i]) ELSE F[d]]
         IN  AddElementLoads(F1, EI, nodes, hinges, currentLoads, i + 1)

\* F after the loop over the loads from k on: POINT and MOMENT at their node
RECURSIVE AddNodalLoads(_, _, _, _)
AddNodalLoads(F, nodes, currentLoads, k) ==
    IF k > Len(currentLoads) THEN F
    ELSE LET load == currentLoads[k]
             idx == findClosestNodeIndex(nodes, load.position)
             F1 == IF load.type = "POINT"
                   THEN [F EXCEPT ![idx * 2 + 1] = RSub(@, Rat(load.magnitude * 1000, 1))]
                   ELSE IF load.type = "MOMENT"
                   THEN [F EXCEPT ![idx * 2 + 2] = RAdd(@, Rat(load.magnitude * 1000, 1))]
                   ELSE F
         IN  AddNodalLoads(F1, nodes, currentLoads, k + 1)

\* buildLoadVector(currentLoads), as numbers
LoadVectorOf(EI, nodes, hinges, currentLoads) ==
    LET F0 == [d \in 1..(Len(nodes) * 2) |-> Zero]
        hasDistributed == \E k \in 1..Len(currentLoads) : IsDistributed(currentLoads[k])
        F1 == IF hasDistributed
              THEN AddElementLoads(F0, EI, nodes, hinges, currentLoads, 0)
              ELSE F0
    IN  AddNodalLoads(F1, nodes, currentLoads, 1)

\* the reactions of the supports from k on that are not hinges
RECURSIVE ReactionsFrom(_, _, _, _, _)
ReactionsFrom(sup, nodes, EI, u, k) ==
    IF k > Len(sup) THEN <<>>
    ELSE IF sup[k].type = "HINGE" THEN ReactionsFrom(sup, nodes, EI, u, k + 1)
    ELSE LET nIdx == findClosestNodeIndex(nodes, sup[k].position)
             f == QDiv(QMul(PenaltyOf(EI), u[nIdx * 2 + 1]), Q(-1000, 1))
             m == IF sup[k].type = "FIXED"
                  THEN QDiv(QMul(PenaltyOf(EI), u[nIdx * 2 + 2]), Q(1000, 1))
                  ELSE QZero
         IN  <<[position |-> sup[k].position, force |-> f, moment |-> m,
                id |-> sup[k].id]>>
             \o ReactionsFrom(sup, nodes, EI, u, k + 1)

ReactConfigs ==
    { [length |-> <<1, 10>>, elasticModulus |-> 200, momentOfInertia |-> 5000] }

\* A beam 0.1 m long meshed as one element: a propped cantilever, plain, with a
\* hinge at the fixed end and with a hinge at the roller, and a simple beam.
ReactSupports ==
    { << [id |-> "s3", type |-> "FIXED",  position |-> <<0, 1>>],
         [id |-> "s2", type |-> "ROLLER", position |-> <<1, 10>>] >>,
      << [id |-> "s6", type |-> "HINGE",  position |-> <<0, 1>>],
         [id |-> "s3", type |-> "FIXED",  position |-> <<0, 1>>],
         [id |-> "s2", type |-> "ROLLER", position |-> <<1, 10>>] >>,
      << [id |-> "s3", type |-> "FIXED",  position |-> <<0, 1>>],
         [id |-> "s7", type |-> "HINGE",  position |-> <<1, 10>>],
         [id |-> "s2", type |-> "ROLLER", position |-> <<1, 10>>] >>,
      << [id |-> "s1", type |-> "PINNED", position |-> <<0, 1>>],
         [id |-> "s2", type |-> "ROLLER", position |-> <<1, 10>>] >> }

ReactLoads ==
    { << [id |-> "l1", type |-> "POINT", magnitude |-> 10, endMagnitude |-> Undefined,
          position |-> <<1, 10>>, endPosition |-> Undefined] >>,
      << [id |-> "l2", type |-> "UDL", magnitude |-> 10, endMagnitude |-> Undefined,
          position |-> <<0, 1>>, endPosition |-> <<1, 10>>] >>,
      << [id |-> "l3", type |-> "UVL", magnitude |-> 10, endMagnitude |-> <<5, 1>>,
          position |-> <<0, 1>>, endPosition |-> <<1, 10>>] >>,
      << [id |-> "l4", type |-> "MOMENT", magnitude |-> 10, endMagnitude |-> Undefined,
          position |-> <<1, 10>>, endPosition |-> Undefined] >> }

\* A propped cantilever 0.2 m long with a hinge at midspan under a point load
\* there: two elements.
HingedSpanConfig ==
    [length |-> <<1, 5>>, elasticModulus |-> 200, momentOfInertia |-> 5000]

HingedSpanSupports ==
    << [id |-> "s3", type |-> "FIXED",  position |-> <<0, 1>>],
       [id |-> "s4", type |-> "HINGE",  position |-> <<1, 10>>],
       [id |-> "s2", type |-> "ROLLER", position |-> <<1, 5>>] >>

HingedSpanLoads ==
    << [id |-> "l5", type |-> "POINT", magnitude |-> 10, endMagnitude |-> Undefined,
        position |-> <<1, 10>>, endPosition |-> Undefined] >>

ReactInputs ==
    { <<cfg, sup, lds>> : cfg \in ReactConfigs, sup \in ReactSupports,
                          lds \in ReactLoads }
      \cup { <<HingedSpanConfig, HingedSpanSupports, HingedSpanLoads>> }

InitReact ==
    /\ NoCall /\ elem = NoElem /\ lusolver = NoLU /\ app = NoApp
    /\ \E in \in ReactInputs :
          LET nodes == GenerateNodes(in[1].length, in[2], in[3], Zero)
          IN  stiff = [pc |-> "elements", EI |-> EIof(in[1]), nodes |-> nodes,
                       hingeNodes |-> HingeNodesOf(in[2], nodes), supports |-> in[2],
                       i |-> 0, K |-> KZero(Len(nodes) * 2),
                       loads |-> in[3], U |-> <<>>, reactions |-> <<>>]

\* const solver = new LUSolver(matrixForLU), to be called with F_main
NewSolver ==
    /\ stiff.pc = "assembled"
    /\ lusolver = NoLU
    /\ lusolver' = [pc |-> "new", from |-> "analyzeBeam",
                    matrix |-> MatrixForLU(stiff.K, stiff.EI),
                    bs |-> { QVector(LoadVectorOf(stiff.EI, stiff.nodes,
                                                  stiff.hingeNodes, stiff.loads)) },
                    n |-> 0, LU |-> <<>>, pivot |-> <<>>, i |-> 0,
                    arg |-> <<>>, b |-> <<>>, x |-> <<>>, seen |-> {}]
    /\ UNCHANGED <<call, elem, stiff, app>>

\* U = solver.solve(F_main) has returned: the reactions
ExactReactions ==
    /\ stiff.pc = "assembled"
    /\ lusolver.pc = "ready" /\ lusolver.x # <<>>
    /\ stiff' = [stiff EXCEPT
                    !.pc = "solved",
                    !.U = lusolver.x,
                    !.reactions = ReactionsFrom(stiff.supports, stiff.nodes,
                                                stiff.EI, lusolver.x, 1)]
    /\ UNCHANGED <<call, elem, lusolver, app>>

NextReact == NextStiff \/ NewSolver \/ NextLU \/ ExactReactions

SpecReact == InitReact /\ [][NextReact]_vars

----------------------------------------------------------------------------
(* The App component: state, the mount effect, the debounced analysis      *)
(* effect and its timer.  A timer callback runs to completion (JavaScript  *)
(* is single-threaded), so runAnalysis is one step.                        *)

MaxEdits == 3

\* The value analyzeBeam returns, the stages of the call composed; <<>> when
\* it throws.
analyzeBeam(cfg, sup, lds, probe) ==
    IF GuardRejects(cfg) THEN <<>>
    ELSE LET nodes == GenerateNodes(cfg.length, sup, lds, probe)
             hinges == HingeNodesOf(sup, nodes)
             lu == LUSolver(AssembleK(nodes, hinges, sup))
             u == Solve(lu, buildLoadVector(nodes, hinges, lds, MainRhs))
             ints == InternalAtNodes(nodes, u)
             rc == ReactionCountOf(sup)
             stable == IsStableOf(rc)
         IN  << [nodes |-> nodes,
                 shearForce |-> [i \in 1..Len(nodes) |-> ints[i].shear],
                 bendingMoment |-> [i \in 1..Len(nodes) |-> ints[i].moment],
                 deflection |-> DeflectionOf(u),
                 reactions |-> ReactionsOf(sup, nodes, u),
                 determinacy |-> DeterminacyOf(rc, Cardinality(hinges)),
                 isStable |-> stable,
                 ildReactions |->
                     [id \in IldKeys(sup) |->
                         IF stable
                         THEN IldReactionList(lu, sup, nodes, hinges, id, cfg.length)
                         ELSE <<>>],
                 ildShearAtProbe |->
                     IF stable
                     THEN IldAtProbe(lu, nodes, hinges, probe, cfg.length, "shear")
                     ELSE <<>>,
                 ildMomentAtProbe |->
                     IF stable
                     THEN IldAtProbe(lu, nodes, hinges, probe, cfg.length, "moment")
                     ELSE <<>>] >>

\* INITIAL_CONFIG, INITIAL_SUPPORTS, INITIAL_LOADS and the probe, with the
\* beam scaled down to length 1/5 (two elements instead of a hundred).
InitialInputs ==
    << [length |-> <<1, 5>>, elasticModulus |-> 200, momentOfInertia |-> 5000],
       << [id |-> "1", type |-> "PINNED", position |-> <<0, 1>>],
          [id |-> "2", type |-> "ROLLER", position |-> <<1, 5>>] >>,
       << [id |-> "l1", type |-> "UDL", magnitude |-> 10, endMagnitude |-> Undefined,
           position |-> <<0, 1>>, endPosition |-> <<1, 5>>] >>,
       <<1, 10>> >>

\* What the user can turn the inputs into: a moved probe, a fixed support, a
\* length below 0.01, a zero elastic modulus, a moment of inertia of 1e-320.
EditedInputs ==
    { [InitialInputs EXCEPT ![4] = <<1, 5>>],
      [InitialInputs EXCEPT ![2][1].type = "FIXED"],
      [InitialInputs EXCEPT ![1].length = <<1, 200>>],
      [InitialInputs EXCEPT ![1].elasticModulus = 0],
      [InitialInputs EXCEPT ![1] = [length |-> <<1, 5>>, elasticModulus |-> 200,
                                    momentOfInertia |-> 1, inertiaScale |-> -320]] }

AppInputs == {InitialInputs} \cup EditedInputs

\* analyzeBeam on each of these inputs, evaluated once.
AnalysisOf == [in \in AppInputs |-> analyzeBeam(in[1], in[2], in[3], in[4])]

\* false when runAnalysis returns before calling analyzeBeam
RunAnalysisProceeds(in) ==
    ~( \/ RLt(in[1].length, <<1, 100>>)
       \/ in[1].elasticModulus <= 0
       \/ in[1].momentOfInertia <= 0 )

InitApp ==
    /\ NoCall /\ elem = NoElem /\ stiff = NoStiff /\ lusolver = NoLU
    /\ app = [pc |-> "mounting", isLoaded |-> FALSE, inputs |-> InitialInputs,
              results |-> <<>>, isCalculating |-> FALSE,
              timer |-> <<>>, edits |-> 0, runs |-> <<>>]

\* The mount effect: the saved state, if any, replaces the defaults and
\* isLoaded becomes true; the render that follows starts the first timer.
Load ==
    /\ app.pc = "mounting"
    /\ \E in \in AppInputs :
          app' = [app EXCEPT !.pc = "mounted", !.isLoaded = TRUE,
                             !.inputs = in, !.timer = <<in>>]
    /\ UNCHANGED <<call, elem, stiff, lusolver>>

EditKeepingTimer ==
    /\ app.isLoaded /\ app.edits < MaxEdits
    /\ \E in \in AppInputs \ {app.inputs} :
          app' = [app EXCEPT !.inputs = in, !.edits = @ + 1,
                             !.timer = IF app.timer = <<>> THEN <<in>> ELSE app.timer]
    /\ UNCHANGED <<call, elem, stiff, lusolver>>

\* A change of config, supports, loads or the probe: the effect's cleanup
\* clears the pending timer and the effect starts a new one that closes over
\* the new values.
\* the effect without its cleanup: the timer already pending stays
EditWithoutCleanup ==
    /\ app.isLoaded /\ app.edits < MaxEdits
    /\ \E in \in AppInputs \ {app.inputs} :
          app' = [app EXCEPT !.inputs = in, !.edits = @ + 1,
                             !.timer = Append(app.timer, in)]
    /\ UNCHANGED <<call, elem, stiff, lusolver>>

Edit ==
    /\ app.isLoaded /\ app.edits < MaxEdits
    /\ \E in \in AppInputs \ {app.inputs} :
          app' = [app EXCEPT !.inputs = in, !.edits = @ + 1, !.timer = <<in>>]
    /\ UNCHANGED <<call, elem, stiff, lusolver>>

\* handleReset
Reset ==
    /\ app.isLoaded /\ app.edits < MaxEdits
    /\ app' = [app EXCEPT !.inputs = InitialInputs, !.results = <<>>,
                          !.edits = @ + 1, !.timer = <<InitialInputs>>]
    /\ UNCHANGED <<call, elem, stiff, lusolver>>

\* The timer fires, 400 ms after it was set: runAnalysis on the values the
\* effect closed over.
\* runAnalysis without the catch block's setIsCalculating(false)
TimerFiresWithoutCatch ==
    /\ app.timer # <<>>
    /\ LET in == app.timer[1]
           res == AnalysisOf[in]
       IN  app' = [app EXCEPT
                      !.timer = <<>>,
                      !.isCalculating = RunAnalysisProceeds(in) /\ res = <<>>,
                      !.results = IF RunAnalysisProceeds(in) /\ res # <<>>
                                  THEN res ELSE @,
                      !.runs = IF RunAnalysisProceeds(in) THEN <<in>> ELSE @]
    /\ UNCHANGED <<call, elem, stiff, lusolver>>

TimerFires ==
    /\ app.timer # <<>>
    /\ LET in == app.timer[1]
           res == AnalysisOf[in]
       IN  app' = [app EXCEPT
                      !.timer = <<>>,
                      !.isCalculating = FALSE,
                      !.results = IF RunAnalysisProceeds(in) /\ res # <<>>
                                  THEN res ELSE @,
                      !.runs = IF RunAnalysisProceeds(in) THEN <<in>> ELSE @]
    /\ UNCHANGED <<call, elem, stiff, lusolver>>

NextApp == Load \/ Edit \/ Reset \/ TimerFires

SpecApp == InitApp /\ [][NextApp]_vars

\* The mount effect runs after the first render, and a timer that stays set
\* fires.
SpecAppLive == SpecApp /\ WF_vars(Load) /\ WF_vars(TimerFires)

----------------------------------------------------------------------------
(* Properties.                                                             *)

Returned == pc = "done" /\ outcome = "returned"

Count(seq, x) == Cardinality({ i \in 1..Len(seq) : seq[i] = x })

\* The positions the caller passes: supports, loads, UDL/UVL ends, the probe.
ClaimedPositions ==
    { supports[i].position : i \in 1..Len(supports) }
        \cup { loads[i].position : i \in 1..Len(loads) }
        \cup { loads[i].endPosition :
                 i \in { k \in 1..Len(loads) : loads[k].type \in {"UDL", "UVL"} } }
        \cup { probeX }

AllInside ==
    \A x \in ClaimedPositions : RLe(Zero, x) /\ RLe(x, config.length)

InvalidGeometry ==
    config.length[1] <= 0 \/ config.elasticModulus * config.momentOfInertia <= 0

TypeCount(t) == Cardinality({ i \in 1..Len(supports) : supports[i].type = t })

ExpectedReactionCount == 2 * TypeCount("FIXED") + TypeCount("PINNED") + TypeCount("ROLLER")

\* C1: a call with length <= 0 or EI <= 0 throws before any node, stiffness
\* matrix, factorization or load vector exists and yields no result; a call
\* with length > 0 and EI > 0 is never rejected by the guard.
C1_GuardAbortsBeforeWork ==
    /\ (pc \notin {"guard", "done"}) => ~InvalidGeometry
    /\ (pc = "done" /\ InvalidGeometry) => outcome = "threw"
    /\ (outcome = "threw") =>
          /\ InvalidGeometry
          /\ finalNodes = <<>> /\ K = NoMatrix /\ solver = NoSolver
          /\ F_main = NoVector /\ U = <<>>
          /\ result = <<>>
    /\ (~InvalidGeometry) => outcome # "threw"

C1_Witness ==
    /\ pc = "done" /\ outcome = "threw"
    /\ config.length[1] > 0
    /\ config.elasticModulus * config.momentOfInertia = 0

C3_EveryPositionOnce ==
    Returned =>
        \A x \in ClaimedPositions : Count(result[1].nodes, x) = 1

\* C4: with all positions inside [0, L] the returned nodes are strictly
\* increasing, start at 0, end at L, and L occurs once.
C4_NodesIncreasingFromZeroToL ==
    (Returned /\ AllInside) =>
        LET nodes == result[1].nodes
        IN  /\ \A i \in 1..(Len(nodes) - 1) : RLt(nodes[i], nodes[i + 1])
            /\ nodes[1] = Zero
            /\ nodes[Len(nodes)] = config.length
            /\ Count(nodes, config.length) = 1

C4_Witness ==
    /\ Returned /\ AllInside
    /\ Len(supports) = 2 /\ Len(loads) = 1
    /\ Len(result[1].nodes) >= 5

\* C5: with all positions inside [0, L] no two adjacent nodes are further apart
\* than max(0.1, L/100), and the nodes between two consecutive critical
\* positions a < b cut [a, b] into ceil((b - a) / max(0.1, L/100)) equal parts.
C5_GapAtMostMinInterval ==
    (Returned /\ AllInside) =>
        LET nodes == result[1].nodes
            L == config.length
            mi == IF RLt(<<1, 10>>, RDiv(L, <<100, 1>>)) THEN RDiv(L, <<100, 1>>)
                  ELSE <<1, 10>>
            crit == ClaimedPositions \cup {Zero, L}
        IN  /\ \A i \in 1..(Len(nodes) - 1) :
                  LET gap == RSub(nodes[i + 1], nodes[i])
                  IN  RLe(RMul(gap, <<10, 1>>), <<1, 1>>)
                         \/ RLe(RMul(gap, <<100, 1>>), L)
            /\ \A a \in crit : \A b \in crit :
                  ( RLt(a, b) /\ ~\E c \in crit : RLt(a, c) /\ RLt(c, b) ) =>
                      LET inside == { n \in SeqRange(nodes) : RLe(a, n) /\ RLe(n, b) }
                          k == Cardinality(inside) - 1
                          d == RSub(b, a)
                      IN  /\ k >= 1
                          /\ RLe(d, RMul(<<k, 1>>, mi))
                          /\ RLt(RMul(<<k - 1, 1>>, mi), d)
                          /\ inside = { RAdd(a, RDiv(RMul(<<j, 1>>, d), <<k, 1>>)) :
                                          j \in 0..k }

C5_Witness ==
    /\ Returned /\ AllInside
    /\ RLt(<<10, 1>>, config.length)
    /\ \E i \in 1..(Len(result[1].nodes) - 1) :
          RSub(result[1].nodes[i + 1], result[1].nodes[i]) = <<1, 5>>

\* C6: shearForce, bendingMoment and deflection have one entry per node, entry
\* i being the value recovered at node i (deflection i is the scaled
\* translation DOF 2i), and the displacement vector is twice as long.
C6_OneEntryPerNode ==
    Returned =>
        LET r == result[1]
            n == Len(r.nodes)
        IN  /\ Len(r.shearForce) = n
            /\ Len(r.bendingMoment) = n
            /\ Len(r.deflection) = n
            /\ Len(U) = 2 * n
            /\ \A i \in 1..n :
                  /\ r.deflection[i] = Term("U*1000", 2 * (i - 1), MainRhs)
                  /\ r.shearForce[i] = getInternalAt(r.nodes, U, r.nodes[i], "left").shear
                  /\ r.bendingMoment[i] =
                        ClipMoment(getInternalAt(r.nodes, U, r.nodes[i], "left").moment)

C6_Witness ==
    /\ Returned
    /\ Len(result[1].nodes) >= 4
    /\ Len(result[1].deflection) = Len(result[1].nodes)
    /\ Len(loads) = 1

\* C7: reactions holds one entry per non-HINGE support, in argument order, with
\* that support's id and position and the labels R1, R2, ...; the keys of
\* ildReactions are the ids of the non-HINGE supports; the moment of a
\* non-FIXED support's reaction is 0.
C7_ReactionsPerNonHingeSupport ==
    Returned =>
        LET r == result[1]
            ks == SelectSeq([k \in 1..Len(supports) |-> k],
                            LAMBDA k : supports[k].type # "HINGE")
        IN  /\ Len(r.reactions) = Len(ks)
            /\ \A j \in 1..Len(ks) :
                  /\ r.reactions[j].id = supports[ks[j]].id
                  /\ r.reactions[j].position = supports[ks[j]].position
                  /\ r.reactions[j].label = <<"R", j>>
                  /\ supports[ks[j]].type # "FIXED" => r.reactions[j].moment = ZeroVal
            /\ DOMAIN r.ildReactions = { supports[ks[j]].id : j \in 1..Len(ks) }

C7_Witness ==
    /\ Returned
    /\ Len(supports) = 2
    /\ supports[1].type = "HINGE" /\ supports[2].type = "ROLLER"
    /\ Len(result[1].reactions) = 1
    /\ result[1].reactions[1].label = <<"R", 1>>

\* C8 (as claimed): one PINNED and one ROLLER support give determinacy 0, one
\* FIXED and one ROLLER support give determinacy 1.
C8_TextbookDeterminacy ==
    (Returned /\ Len(supports) = 2 /\ TypeCount("ROLLER") = 1) =>
        /\ TypeCount("PINNED") = 1 => result[1].determinacy = 0
        /\ TypeCount("FIXED") = 1 => result[1].determinacy = 1

\* C9: when the HINGE supports resolve to pairwise distinct nodes, determinacy
\* is (2 per FIXED + 1 per PINNED or ROLLER) - 3 - (number of HINGE supports).
C9_DeterminacyFormula ==
    LET hs == { i \in 1..Len(supports) : supports[i].type = "HINGE" }
    IN  ( /\ Returned
          /\ \A i \in hs : \A j \in hs :
                i # j => findClosestNodeIndex(result[1].nodes, supports[i].position)
                           # findClosestNodeIndex(result[1].nodes, supports[j].position) )
        => result[1].determinacy = ExpectedReactionCount - 3 - Cardinality(hs)

C9_Witness ==
    /\ Returned
    /\ Len(supports) = 2
    /\ supports[1].type = "HINGE" /\ supports[2].type = "HINGE"
    /\ supports[1].position # supports[2].position
    /\ result[1].determinacy = -5

\* C10: isStable is true exactly when 2 per FIXED + 1 per PINNED or ROLLER
\* support is at least 3.
C10_StableIffThreeReactions ==
    Returned => (result[1].isStable <=> ExpectedReactionCount >= 3)

C10_Witness ==
    /\ Returned
    /\ result[1].isStable
    /\ ExpectedReactionCount = 3
    /\ Len(loads) = 1

UnitSolveCount == Cardinality({ k \in 1..Len(log) : log[k].op = "solve" /\ log[k].rhs >= 0 })

NonHingeIds ==
    { supports[k].id : k \in { j \in 1..Len(supports) : supports[j].type # "HINGE" } }

DistinctIds ==
    \A i, j \in 1..Len(supports) : supports[i].id = supports[j].id => i = j

\* C11: a returned call with isStable false has made no unit-load solve, its
\* ildShearAtProbe and ildMomentAtProbe are empty, ildReactions has exactly
\* one key per id of a non-hinge support and every list in it is empty, while
\* the main-load results are present: one shear, moment and deflection entry per
\* node, one reaction per non-hinge support, after one main-load solve.
C11_UnstableSkipsInfluenceLines ==
    (Returned /\ ~result[1].isStable) =>
        LET r == result[1]
        IN  /\ UnitSolveCount = 0
            /\ r.ildShearAtProbe = <<>> /\ r.ildMomentAtProbe = <<>>
            /\ DOMAIN r.ildReactions = NonHingeIds
            /\ \A id \in DOMAIN r.ildReactions : r.ildReactions[id] = <<>>
            /\ Len(r.nodes) >= 2
            /\ Len(r.shearForce) = Len(r.nodes)
            /\ Len(r.bendingMoment) = Len(r.nodes)
            /\ Len(r.deflection) = Len(r.nodes)
            /\ Len(r.reactions) = Len(supports) - TypeCount("HINGE")
            /\ Count(log, [op |-> "solve", rhs |-> MainRhs]) = 1

C11_Witness ==
    /\ Returned /\ ~result[1].isStable
    /\ TypeCount("HINGE") = 1 /\ TypeCount("PINNED") = 1
    /\ Len(loads) = 1

\* C12: a returned call with isStable true and distinct support ids holds 31
\* points in ildShearAtProbe, in ildMomentAtProbe and in the ildReactions list
\* of every non-hinge support, the i-th at x = (i/30)*L, so x increases from 0
\* to L; the log holds exactly one solve for each station 0..30.
C12_ThirtyOneStations ==
    (Returned /\ result[1].isStable /\ DistinctIds) =>
        LET r == result[1]
            L == config.length
            lists == { r.ildShearAtProbe, r.ildMomentAtProbe }
                        \cup { r.ildReactions[id] : id \in NonHingeIds }
        IN  /\ DOMAIN r.ildReactions = NonHingeIds
            /\ \A pts \in lists :
                  /\ Len(pts) = 31
                  /\ \A i \in 0..30 : pts[i + 1].x = Rat(i * L[1], 30 * L[2])
                  /\ \A i \in 0..29 : RLt(pts[i + 1].x, pts[i + 2].x)
                  /\ pts[1].x = Zero /\ pts[31].x = L
            /\ \A i \in 0..30 : Count(log, [op |-> "solve", rhs |-> i]) = 1
            /\ UnitSolveCount = 31

C12_Witness ==
    /\ Returned /\ result[1].isStable /\ DistinctIds
    /\ TypeCount("FIXED") = 1 /\ TypeCount("HINGE") = 1
    /\ Len(result[1].ildReactions["s3"]) = 31
    /\ Len(result[1].ildMomentAtProbe) = 31

\* The events of a whole stable call, in program order.
WholeCallLog ==
    << [op |-> "factorize"], [op |-> "solve", rhs |-> -1] >>
        \o [k \in 1..31 |-> [op |-> "solve", rhs |-> k - 1]]

\* C18: at every moment of a call the log is a prefix of: one factorization,
\* the main-load solve, the unit-load solves of stations 0, 1, ..., 30; so the
\* factorization is built once and before any solve, the main-load solve
\* precedes every unit-load solve, the unit-load solves are in increasing
\* station order, and nothing is factorized between solves.
C18_FactorizeOnceThenSolves ==
    /\ Len(log) <= Len(WholeCallLog)
    /\ \A k \in 1..Len(log) : log[k] = WholeCallLog[k]
    /\ (pc \in {"recover", "reactions", "ild", "return"} \/ Returned) => Len(log) >= 2

C18_Witness ==
    /\ Returned /\ log = WholeCallLog
    /\ Len(finalNodes) > 4

\* The update claimed for one released DOF r, from the values k, f before it.
Condensed(k, f, r) ==
    [ke |-> [i \in 1..4 |-> [j \in 1..4 |->
                RSub(k[i][j], RDiv(RMul(k[i][r + 1], k[r + 1][j]), k[r + 1][r + 1]))]],
     fe |-> [i \in 1..4 |->
                RSub(f[i], RMul(RDiv(k[i][r + 1], k[r + 1][r + 1]), f[r + 1]))]]

Released == elem.pc \in {"forces", "done"}

\* C17 (as claimed): after applyMomentRelease with one released DOF r and
\* |k_rr| >= 1e-12, ke[i][j] = k_ij - k_ir*k_rj/k_rr and
\* fe[i] = f_i - (k_ir/k_rr)*f_r for the values k, f before the call, so row r
\* and column r of ke and fe[r] are zero; with both ends released the update is
\* applied for r = 1 and then for r = 3.
C17_ReleaseIsStaticCondensation ==
    Released =>
        LET k == elem.keBefore
            f == elem.feBefore
            now == [ke |-> elem.ke, fe |-> elem.fe]
            one(r) == /\ ~BelowReleaseTolerance(k[r + 1][r + 1])
                         => now = Condensed(k, f, r)
                      /\ \A i \in 1..4 : now.ke[r + 1][i] = Zero /\ now.ke[i][r + 1] = Zero
                      /\ now.fe[r + 1] = Zero
        IN  /\ (elem.releaseStart /\ ~elem.releaseEnd) => one(1)
            /\ (elem.releaseEnd /\ ~elem.releaseStart) => one(3)
            /\ (elem.releaseStart /\ elem.releaseEnd) =>
                  LET first == Condensed(k, f, 1)
                  IN  now = Condensed(first.ke, first.fe, 3)

\* C14 (as claimed): the moment getInternalAt returns at a hinge node is 0,
\* whether the node is the start of the element used (the right side of the
\* node, or the first node) or its end (the left side), for every displacement
\* vector and load set.
C14_ZeroMomentAtHinge ==
    ( /\ elem.pc = "done"
      /\ \/ elem.atStart /\ elem.releaseStart
         \/ ~elem.atStart /\ elem.releaseEnd )
    => elem.out[1].moment = Zero

\* C20: the assembled K (element scatter plus penalty terms) is symmetric,
\* K[a][b] = K[b][a] for all DOFs a, b, whatever the mesh and the supports,
\* hinges included.
C20_StiffnessSymmetric ==
    stiff.pc = "assembled" =>
        \A a, b \in 1..Len(stiff.K) : stiff.K[a][b] = stiff.K[b][a]

C20_Witness ==
    /\ stiff.pc = "assembled"
    /\ stiff.hingeNodes # {}
    /\ \E a \in 1..Len(stiff.K) : stiff.K[a][a].penalties = 1
    /\ \E a, b \in 1..Len(stiff.K) : a # b /\ stiff.K[a][b].v # Zero

Solved == lusolver.pc = "ready" /\ lusolver.x # <<>>

\* C15 (as claimed): for the factorization of an assembled K and every
\* right-hand side F used in a call, u = solve(F) satisfies K*u = F.
C15_SolveSatisfiesSystem ==
    (Solved /\ lusolver.from = "analyzeBeam") =>
        MatVec(lusolver.matrix, lusolver.x) = lusolver.b

\* No column was skipped by the constructor: every diagonal entry of the
\* factor has magnitude at least 1e-18.
NoColumnSkipped ==
    \A i \in 1..lusolver.n : ~BelowPivotTolerance(lusolver.LU[i][i])

\* C15 (amended): when the factorization skipped no column (every pivot had
\* magnitude >= 1e-18), u = solve(F) satisfies K*u = F for every right-hand
\* side.
C15_SolveSatisfiesRegularSystem ==
    (Solved /\ NoColumnSkipped) =>
        MatVec(lusolver.matrix, lusolver.x) = lusolver.b

C15_Witness ==
    /\ Solved /\ NoColumnSkipped
    /\ lusolver.n = 4
    /\ lusolver.pivot # <<0, 1, 2, 3>>
    /\ lusolver.b # QVector(Zero4)

UpToDate ==
    /\ app.runs = <<app.inputs>>
    /\ app.results = AnalysisOf[app.inputs]
    /\ app.results # <<>>

\* C16 (as claimed): once loading has completed and edits have stopped, the
\* last run of analyzeBeam was on the latest values and results is that run's
\* output, from some moment on.
C16_ResultsFollowInputs ==
    <>[](app.isLoaded /\ UpToDate)

\* C16 (amended): the same, provided the latest config passes runAnalysis'
\* own check (length >= 0.01, elasticModulus > 0, momentOfInertia > 0) and
\* analyzeBeam does not throw on the latest values; otherwise results is not
\* replaced and the timer is simply gone.
C16_ResultsFollowAcceptedInputs ==
    <>[]( /\ app.isLoaded /\ app.timer = <<>>
          /\ (RunAnalysisProceeds(app.inputs) /\ AnalysisOf[app.inputs] # <<>>)
                => UpToDate )

C16_Witness ==
    /\ app.isLoaded /\ app.timer = <<>> /\ app.edits = 2
    /\ app.inputs \in EditedInputs
    /\ RunAnalysisProceeds(app.inputs) /\ UpToDate

\* the downward load one load applies: the magnitude of a POINT, the area
\* under a UDL or UVL over its extent, nothing for a MOMENT
AppliedLoadOf(load) ==
    IF load.type = "POINT" THEN Rat(load.magnitude, 1)
    ELSE IF load.type = "UDL"
    THEN RMul(Rat(load.magnitude, 1), RSub(load.endPosition, load.position))
    ELSE IF load.type = "UVL"
    THEN RMul(RDiv(RAdd(Rat(load.magnitude, 1), load.endMagnitude), Rat(2, 1)),
              RSub(load.endPosition, load.position))
    ELSE Zero

RECURSIVE TotalAppliedLoad(_, _)
TotalAppliedLoad(lds, k) ==
    IF k > Len(lds) THEN Zero
    ELSE RAdd(AppliedLoadOf(lds[k]), TotalAppliedLoad(lds, k + 1))

RECURSIVE SumOfForces(_, _)
SumOfForces(rs, k) ==
    IF k > Len(rs) THEN QZero ELSE QAdd(rs[k].force, SumOfForces(rs, k + 1))

\* the reaction forces sum to the applied load to within 0.001 kN
ReactionsBalance ==
    QLt(QAbs(QSub(SumOfForces(stiff.reactions, 1),
                  ToQ(TotalAppliedLoad(stiff.loads, 1)))),
        Q(1, 1000))

\* C13 (as claimed): for every configuration classified stable, hinged ones
\* included, the forces of the returned reactions sum to the total applied
\* downward load.
C13_ReactionsBalanceLoads ==
    (stiff.pc = "solved" /\ IsStableOf(ReactionCountOf(stiff.supports))) =>
        ReactionsBalance

\* the number of penalty terms support s adds to K[d][d], idx its closest node
PenaltyShare(s, idx, d) ==
    IF d = 2 * idx /\ s.type \in {"PINNED", "ROLLER", "FIXED"} THEN 1
    ELSE IF d = 2 * idx + 1 /\ s.type = "FIXED" THEN 1
    ELSE 0

\* C21: the step of supports.forEach for one support adds penalty to the
\* diagonal of K at DOF 2*idx of its closest node when it is PINNED, ROLLER or
\* FIXED, and at DOF 2*idx+1 too when it is FIXED; a HINGE adds nothing; no
\* other entry of K, diagonal or off-diagonal, changes.
C21_PenaltyOnSupportDofsOnly ==
    [][ (stiff.pc = "penalties" /\ stiff'.pc = "penalties") =>
           LET s == stiff.supports[stiff.i + 1]
               idx == findClosestNodeIndex(stiff.nodes, s.position)
           IN  \A a, b \in 1..Len(stiff.K) :
                  /\ stiff'.K[a][b].v = stiff.K[a][b].v
                  /\ stiff'.K[a][b].penalties =
                        stiff.K[a][b].penalties
                          + (IF a = b THEN PenaltyShare(s, idx, a - 1) ELSE 0) ]_vars

C21_Witness ==
    /\ stiff.pc = "assembled"
    /\ Len(stiff.supports) = 2
    /\ stiff.supports[1].type = "FIXED" /\ stiff.supports[2].type = "ROLLER"
    /\ stiff.K[1][1].penalties = 1 /\ stiff.K[2][2].penalties = 1
    /\ stiff.K[Len(stiff.K) - 1][Len(stiff.K) - 1].penalties = 1

\* What recovery from element e is said to report for the displacement vector
\* of right-hand side rhs: the start pair when the target node is the element's
\* first node, the far-end pair otherwise (zeros for an element without length).
ClaimedInternal(nodes, e, atStart, rhs) ==
    IF RLe(ElementLength(nodes, e), Zero)
    THEN [shear |-> ZeroVal, moment |-> ZeroVal]
    ELSE IF atStart
    THEN [shear |-> Term("f0/1000", e, rhs), moment |-> Term("-f1/1000", e, rhs)]
    ELSE [shear |-> Term("-f2/1000", e, rhs), moment |-> Term("f3/1000", e, rhs)]

\* element n - 1 for side left and element n for side right, clamped to 0..N-2
ClaimedElement(nodes, n, side) ==
    Min(Max(IF side = "left" THEN n - 1 ELSE n, 0), Len(nodes) - 2)

ClaimedAt(nodes, x, side, rhs) ==
    LET n == findClosestNodeIndex(nodes, x)
        e == ClaimedElement(nodes, n, side)
    IN  ClaimedInternal(nodes, e, n = e, rhs)

\* C22 (as claimed): recovery at x takes the closest node n and element n-1
\* (left) or n (right), clamped, with the start values when n is the element's
\* first node and the far-end values otherwise; so the main diagrams of a
\* returned result hold, at node 0, the start values of element 0 and, at every
\* other node i, the far-end values of element i-1, the element left of it.
C22_RecoveryUsesLeftElement ==
    Returned =>
        LET r == result[1]
        IN  /\ \A i \in 0..(Len(r.nodes) - 1) :
                  LET c == ClaimedInternal(r.nodes, Max(i - 1, 0), i = 0, MainRhs)
                  IN  /\ r.shearForce[i + 1] = c.shear
                      /\ r.bendingMoment[i + 1] = ClipMoment(c.moment)
            /\ \A k \in 1..Len(r.ildShearAtProbe) :
                  \E side \in {"left", "right"} :
                     LET c == ClaimedAt(r.nodes, probeX, side, k - 1)
                     IN  /\ r.ildShearAtProbe[k].value = c.shear
                         /\ r.ildMomentAtProbe[k].value = c.moment

\* C23: in a returned stable result, the probe ordinates of station k (x = k/30
\* of L) are those recovered at probeX from the displacement vector of the unit
\* load of station k, on side right when x <= probeX and on side left when
\* x > probeX.
C23_ProbeSideByStation ==
    (Returned /\ result[1].isStable) =>
        LET r == result[1]
        IN  \A k \in 0..30 :
               LET x == r.ildShearAtProbe[k + 1].x
                   U_ild == [d \in 1..(2 * Len(r.nodes)) |-> Term("U", d - 1, k)]
                   right == getInternalAt(r.nodes, U_ild, probeX, "right")
                   left == getInternalAt(r.nodes, U_ild, probeX, "left")
               IN  /\ r.ildMomentAtProbe[k + 1].x = x
                   /\ RLe(x, probeX) =>
                         /\ r.ildShearAtProbe[k + 1].value = right.shear
                         /\ r.ildMomentAtProbe[k + 1].value = right.moment
                   /\ RLt(probeX, x) =>
                         /\ r.ildShearAtProbe[k + 1].value = left.shear
                         /\ r.ildMomentAtProbe[k + 1].value = left.moment

\* a probe at the interior node 0.1, which station 15 hits exactly
C23_Witness ==
    /\ Returned /\ result[1].isStable
    /\ probeX = <<1, 10>>
    /\ result[1].ildShearAtProbe[16].x = probeX
    /\ result[1].ildShearAtProbe[16].value = Term("f0/1000", 1, 15)
    /\ result[1].ildShearAtProbe[17].value = Term("-f2/1000", 0, 16)

\* the position of the node the unit load of a station at x is applied to
LoadedNode(nodes, x) == nodes[findClosestNodeIndex(nodes, x) + 1]

\* C24 (as claimed): in a returned stable result, the probe ordinates of every
\* station are recovered on side right when the node its unit load is applied
\* to lies at or left of probeX, and on side left when that node lies right of
\* probeX.
C24_ProbeSideByLoadedNode ==
    (Returned /\ result[1].isStable) =>
        LET r == result[1]
        IN  \A k \in 0..30 :
               LET loaded == LoadedNode(r.nodes, r.ildShearAtProbe[k + 1].x)
                   U_ild == [d \in 1..(2 * Len(r.nodes)) |-> Term("U", d - 1, k)]
                   int == getInternalAt(r.nodes, U_ild, probeX,
                                        IF RLe(loaded, probeX) THEN "right" ELSE "left")
               IN  /\ r.ildShearAtProbe[k + 1].value = int.shear
                   /\ r.ildMomentAtProbe[k + 1].value = int.moment

\* the largest magnitude in column i of LU from row i down; the divisor of the
\* elimination of column i is the entry of that magnitude
ColumnMax(LU, i) == PivotSearch(LU, i, i, QZero, i).max

\* C25: for every square matrix, singular and all-zero ones included, each
\* iteration of the constructor either finds a column maximum below 1e-18 and
\* leaves LU and pivot as they are (no swap, no elimination), or divides by a
\* pivot of magnitude at least 1e-18, never by zero; and in every solution returned by solve, a component whose
\* diagonal entry of LU has magnitude below 1e-22 is 0, so solve never divides
\* by a zero diagonal either.
C25_NoDivisionByZeroPivot ==
    /\ [][ lusolver.pc = "factor" =>
              /\ lusolver'.i = lusolver.i + 1
              /\ IF BelowPivotTolerance(ColumnMax(lusolver.LU, lusolver.i))
                 THEN lusolver'.LU = lusolver.LU /\ lusolver'.pivot = lusolver.pivot
                 ELSE ColumnMax(lusolver.LU, lusolver.i).s # 0 ]_vars
    /\ [](Solved =>
            /\ Len(lusolver.x) = lusolver.n
            /\ \A i \in 1..lusolver.n :
                  BelowSolveTolerance(lusolver.LU[i][i]) => lusolver.x[i] = QZero)

\* a 2x2 matrix whose first column was skipped on a nonzero entry, the larger
\* one in the second row, and whose second diagonal entry is zero
C25_Witness ==
    /\ Solved
    /\ lusolver.n = 2
    /\ lusolver.LU = lusolver.matrix
    /\ lusolver.pivot = <<0, 1>>
    /\ lusolver.LU[1][1].s # 0 /\ QLt(lusolver.LU[1][1], lusolver.LU[2][1])
    /\ BelowPivotTolerance(lusolver.LU[2][1])
    /\ ~BelowSolveTolerance(lusolver.LU[1][1])
    /\ lusolver.LU[2][2] = QZero
    /\ lusolver.x[2] = QZero /\ lusolver.x[1] # QZero

\* the first row k >= i whose entry in column i has the largest magnitude
FirstMaxRow(LU, i) ==
    CHOOSE k \in i..(Len(LU) - 1) :
        /\ \A j \in i..(Len(LU) - 1) : ~QLt(QAbs(LU[k + 1][i + 1]), QAbs(LU[j + 1][i + 1]))
        /\ \A j \in i..(k - 1) : QLt(QAbs(LU[j + 1][i + 1]), QAbs(LU[k + 1][i + 1]))

\* C26: in every iteration of the constructor whose column maximum is at least
\* 1e-18, the pivot row is the first row attaining the maximum; row i of LU
\* becomes that row and that row receives old row i (its entries left of column
\* i untouched by the elimination), and the pivot vector has the same two
\* entries exchanged. When the constructor has finished, pivot is a
\* permutation of 0..n-1, and solve reads b through it: solve(b) is what the
\* substitutions give for the right-hand side b[pivot[0]], ..., b[pivot[n-1]].
C26_PartialPivotingPermutation ==
    /\ [][ (lusolver.pc = "factor"
              /\ ~BelowPivotTolerance(ColumnMax(lusolver.LU, lusolver.i))) =>
              LET i == lusolver.i
                  row == FirstMaxRow(lusolver.LU, i)
              IN  /\ lusolver'.pivot = Swap(lusolver.pivot, i, row)
                  /\ lusolver'.LU[i + 1] = lusolver.LU[row + 1]
                  /\ \A c \in 1..i : lusolver'.LU[row + 1][c] = lusolver.LU[i + 1][c] ]_vars
    /\ [](lusolver.pc = "ready" =>
            { lusolver.pivot[k] : k \in 1..lusolver.n } = 0..(lusolver.n - 1))
    /\ [](Solved =>
            lusolver.x = LUSolve(lusolver.LU, [k \in 1..lusolver.n |-> k - 1],
                                 [k \in 1..lusolver.n |-> lusolver.b[lusolver.pivot[k] + 1]]))

\* a 3x3 matrix whose first column has its largest magnitude in rows 1 and 2
C26_Witness ==
    /\ Solved
    /\ lusolver.n = 3
    /\ QAbs(lusolver.matrix[2][1]) = QAbs(lusolver.matrix[3][1])
    /\ QLt(QAbs(lusolver.matrix[1][1]), QAbs(lusolver.matrix[2][1]))
    /\ lusolver.pivot[1] = 1
    /\ lusolver.x # [k \in 1..3 |-> QZero]

\* C27: once buildLoadVector has built F_main, every element term in it is
\* of a UDL or UVL whose overlap with the element, from max(x1, position) to
\* min(x2, endPosition), is longer than 1e-9; a UDL or UVL whose endPosition
\* is not greater than its position has no term in F_main at all; and every
\* POINT or MOMENT load has exactly one term, at the translational
\* (POINT) or rotational (MOMENT) degree of freedom of a node that no other
\* node is closer to its position than.
OverlapLength(x1, x2, load) ==
    RSub(IF RLt(x2, load.endPosition) THEN x2 ELSE load.endPosition,
         IF RLt(x1, load.position) THEN load.position ELSE x1)

LongerThanTolerance(d) == d[1] > d[2] \div 1000000000

NoNodeCloser(nodes, n, x) ==
    \A j \in 1..Len(nodes) : RLe(Distance(nodes[n + 1], x), Distance(nodes[j], x))

TermsOfLoad(k) ==
    { t \in 1..Len(F_main.elemTerms) : F_main.elemTerms[t].load = k }

NodalOfLoad(k) ==
    { t \in 1..Len(F_main.nodal) : F_main.nodal[t].load = k }

EmptyExtent(load) ==
    /\ IsDistributed(load)
    /\ load.endPosition # Undefined
    /\ RLe(load.endPosition, load.position)

C27_DistributedOnlyWhereOverlapping ==
    F_main.n > 0 =>
        /\ \A t \in 1..Len(F_main.elemTerms) :
              LET term == F_main.elemTerms[t]
                  load == loads[term.load + 1]
              IN  /\ IsDistributed(load)
                  /\ load.endPosition # Undefined
                  /\ LongerThanTolerance(OverlapLength(finalNodes[term.elem + 1],
                                                       finalNodes[term.elem + 2], load))
        /\ \A k \in 1..Len(loads) :
              /\ EmptyExtent(loads[k]) =>
                    TermsOfLoad(k - 1) = {} /\ NodalOfLoad(k - 1) = {}
              /\ loads[k].type \in {"POINT", "MOMENT"} =>
                    /\ Cardinality(NodalOfLoad(k - 1)) = 1
                    /\ \A t \in NodalOfLoad(k - 1) :
                          LET dof == F_main.nodal[t].dof
                          IN  /\ dof % 2 = (IF loads[k].type = "POINT" THEN 0 ELSE 1)
                              /\ dof \div 2 \in 0..(Len(finalNodes) - 1)
                              /\ NoNodeCloser(finalNodes, dof \div 2, loads[k].position)

\* A load vector built from a distributed load of empty extent and a nodal
\* load: no element term, the nodal load in place.
C27_Witness ==
    /\ F_main.n > 0
    /\ \E k \in 1..Len(loads) : EmptyExtent(loads[k])
    /\ \E k \in 1..Len(loads) : loads[k].type \in {"POINT", "MOMENT"}
    /\ F_main.elemTerms = <<>>
    /\ Len(F_main.nodal) = 1

\* C28: in a call that has returned, the hinge count is the number of distinct
\* nodes that the HINGE supports resolve to (the first node at the smallest
\* distance from the support), so that HINGE supports sharing a node count
\* once: determinacy is the reaction count minus 3 minus that number; and K
\* holds every element of positive length exactly once, released at its
\* start exactly when its first node is such a node and at its end exactly
\* when its second node is.
HingeSupports == { i \in 1..Len(supports) : supports[i].type = "HINGE" }

ResolvedNode(nodes, x) ==
    CHOOSE n \in 0..(Len(nodes) - 1) :
        /\ NoNodeCloser(nodes, n, x)
        /\ \A j \in 0..(n - 1) : RLt(Distance(nodes[n + 1], x), Distance(nodes[j + 1], x))

DistinctHingeNodes ==
    { ResolvedNode(finalNodes, supports[i].position) : i \in HingeSupports }

ElementsAt(i) == { j \in 1..Len(K.elems) : K.elems[j].elem = i }

C28_HingesCountedByNode ==
    Returned =>
        /\ hingesCount = Cardinality(DistinctHingeNodes)
        /\ result[1].determinacy
             = ExpectedReactionCount - 3 - Cardinality(DistinctHingeNodes)
        /\ \A i \in 0..(Len(finalNodes) - 2) :
              IF RLt(finalNodes[i + 1], finalNodes[i + 2])
              THEN /\ Cardinality(ElementsAt(i)) = 1
                   /\ \A j \in ElementsAt(i) :
                         /\ K.elems[j].releaseStart = (i \in DistinctHingeNodes)
                         /\ K.elems[j].releaseEnd = ((i + 1) \in DistinctHingeNodes)
              ELSE ElementsAt(i) = {}

\* Two HINGE supports on one node inside the beam: one hinge counted, the
\* element on each side of the node released once.
C28_Witness ==
    /\ Returned
    /\ Cardinality(HingeSupports) = 2
    /\ hingesCount = 1
    /\ result[1].determinacy = ExpectedReactionCount - 4
    /\ \E n \in DistinctHingeNodes :
          /\ \E j \in 1..Len(K.elems) : K.elems[j].elem = n /\ K.elems[j].releaseStart
          /\ \E j \in 1..Len(K.elems) : K.elems[j].elem = n - 1 /\ K.elems[j].releaseEnd

\* C29: the App never has more than one analysis timer pending, and none
\* before loading has completed; a pending timer is always the one started
\* for the current inputs; every change of the inputs leaves exactly the
\* timer started for the new inputs pending; and analyzeBeam is run only by
\* a firing timer, after loading, on the inputs that are current at that
\* moment.
OneTimerForCurrentInputs ==
    /\ Len(app.timer) <= 1
    /\ ~app.isLoaded => app.timer = <<>> /\ app.runs = <<>> /\ app.results = <<>>
    /\ app.timer # <<>> => app.timer = <<app.inputs>>

ChangeRestartsTimer ==
    (app.isLoaded /\ app'.inputs # app.inputs) => app'.timer = <<app'.inputs>>

RunsOnlyCurrentInputs ==
    app'.runs # app.runs =>
        /\ app.isLoaded
        /\ app.timer # <<>> /\ app'.timer = <<>>
        /\ app'.inputs = app.inputs
        /\ app'.runs = <<app.inputs>>

C29_OneTimerOnCurrentInputs ==
    /\ []OneTimerForCurrentInputs
    /\ [][ChangeRestartsTimer /\ RunsOnlyCurrentInputs]_vars

\* Two changes made while a timer was pending, the second superseding the
\* first: one run so far, on the inputs loaded, and one timer pending, for
\* the inputs of the second change.
C29_Witness ==
    /\ app.isLoaded
    /\ app.edits = 3
    /\ app.runs # <<>> /\ app.runs[1] # app.inputs
    /\ app.timer = <<app.inputs>>
    /\ RunAnalysisProceeds(app.inputs)

\* C30: isCalculating is false whenever the App is at rest; a timer that
\* fires for a config with length < 0.01, elasticModulus <= 0 or
\* momentOfInertia <= 0 does not run analyzeBeam and leaves results as it
\* was; a timer that fires for inputs on which analyzeBeam throws leaves
\* results as it was too.
TimerFiring == app.timer # <<>> /\ app'.timer = <<>>

ConfigRefused(cfg) ==
    \/ cfg.length[1] * 100 < cfg.length[2]
    \/ cfg.elasticModulus <= 0
    \/ cfg.momentOfInertia <= 0

RefusedOrThrownKeepsResults ==
    TimerFiring =>
        /\ ConfigRefused(app.timer[1][1]) =>
              app'.results = app.results /\ app'.runs = app.runs
        /\ AnalysisOf[app.timer[1]] = <<>> => app'.results = app.results
        /\ ~app'.isCalculating

C30_RefusedOrThrownKeepsResults ==
    /\ [](~app.isCalculating)
    /\ [][RefusedOrThrownKeepsResults]_vars

\* The timer has fired for a moment of inertia of 1e-320, which runAnalysis
\* lets through and analyzeBeam throws on: results is still the output for
\* the inputs before the change.
C30_Witness ==
    /\ app.isLoaded /\ app.timer = <<>>
    /\ ~ConfigRefused(app.inputs[1])
    /\ AnalysisOf[app.inputs] = <<>>
    /\ app.runs = <<app.inputs>>
    /\ app.results # <<>>
    /\ \E in \in AppInputs \ {app.inputs} : app.results = AnalysisOf[in]
    /\ ~app.isCalculating

====
